---- MODULE Spec2Model ----
(***************************************************************************)
(* Outreach scheduler of wemdio/newAI.                                     *)
(*                                                                         *)
(* The services of the repository are modelled as separate specifications  *)
(* over one variable list; each specification moves its own variables and  *)
(* leaves the others at rest.                                              *)
(*                                                                         *)
(*   WorkerSpec     backend/python-service/outreach_worker.py: the         *)
(*                  sequential OutreachWorker loop (manual queue, daily    *)
(*                  reset, cooldown sweep, initial messages, replies).     *)
(*   WorkerFairSpec the same loop from one pending target, with weak       *)
(*                  fairness of the loop's steps.                          *)
(*   CampaignSpec   backend/python-service/{main,lead_manager,             *)
(*                  safety_manager,supabase_client_rest}.py: the           *)
(*                  AIMessagingService with one asyncio task per campaign, *)
(*                  all tasks sharing the accounts of one user.            *)
(*   DialogSpec     lead_manager.py: the incoming-message handlers and     *)
(*                  delayed response tasks of one conversation.            *)
(*   QuietSpec      outreach_worker.py: _parse_sleep_periods and           *)
(*                  _is_sleep_time.                                        *)
(*   ProxySpec      outreach_worker.py: the proxy cache of get_client.     *)
(*   FollowSpec     outreach_worker.py: _maybe_send_follow_up and the      *)
(*                  quiet gate of a campaign pass.                         *)
(*   LoopSpec       main.py: main_loop and its registry of campaign tasks. *)
(*   RunnerSpec     To add/backend/app/campaign_manager.py: start, stop    *)
(*                  and the log reader of a campaign process.              *)
(*   LeadSpec       lead_manager.py: first messages to the leads of a user *)
(*                  with several campaigns.                                *)
(*   ClientSpec     outreach_worker.py: cached clients and proxy changes.  *)
(*   QueueSpec      backend/backend/python-service/manual_messaging.py:    *)
(*                  the manual message queue.                              *)
(*   SessionSpec    To add/main.py: poll_client and handle_chat_session.   *)
(*   ReplyPassSpec  outreach_worker.py: _check_for_replies on one chat     *)
(*                  with several new messages.                             *)
(*                                                                         *)
(* Time is a counter of abstract ticks; DayLen ticks make one UTC day.     *)
(***************************************************************************)
EXTENDS Integers, Sequences, FiniteSets, TLC

\* ------------------------------------------------------------------ bounds
NumAccounts == 2
NumTargets == 4
NumManual == 1
MaxTime == 2
DayLen == 2
DailyLimit == 2
CooldownTicks == 2
MaxFloodWait == 1
NumCampaigns == 3
LeadsPerCampaign == 1
NumInbound == 3
NumOutreachCampaigns == 2
MaxMessages == 3
MaxFaults == 1
NumRoutes == 1
ProxyTtl == 2
MaxProxyTime == 4
DefaultDailyLimit == 3

Accounts == 1..NumAccounts
Targets == 1..NumTargets
ManualIds == 1..NumManual
Campaigns == 1..NumCampaigns
Inbound == 1..NumInbound
OutreachCampaigns == 1..NumOutreachCampaigns
NoAccount == 0
None == -1

\* ------------------------------------------------------------- variables
VARIABLES
    now,            \* datetime.utcnow(), in ticks
    accounts,       \* store table outreach_accounts
    targets,        \* store table outreach_targets
    processedClients, \* store table outreach_processed_clients
    manual,         \* store table outreach_manual_messages
    wpc,            \* position of OutreachWorker.main_loop
    campaign,       \* `campaign` of the loop over the active campaigns
    manualBatch,    \* messages fetched by _process_manual_messages
    lastReset,      \* OutreachWorker.last_reset (a day number)
    passAccounts,   \* `accounts` list held by process_campaign (dict copies)
    passProcessed,  \* `processed_usernames` set held by process_campaign
    passTargets,    \* `targets` list held by _send_initial_messages
    accountIndex,   \* `account_index` of _send_initial_messages
    chats,          \* store table outreach_chats, one chat per target
    messages,       \* store table outreach_messages, per chat
    passChats,      \* `chats` list held by _check_for_replies
    campaignRow,    \* the campaign row held by _check_for_replies
    lastSelect,     \* observer: the identity selection of the last step
    lastSend,       \* observer: the network send attempt of the last step
    lastClient,     \* observer: the get_client call of the last step
    lastTurn,       \* observer: the reply generation of the last step
    sentLog,        \* observer: successful sends per account on its last day
    faults,         \* failures of the network and of the generator so far
    \* ---- AIMessagingService, campaign tasks
    tgAccounts,     \* store table telegram_accounts (one user)
    usedOrder,      \* the accounts in ascending order of last_used_at
    usageCache,     \* SafetyManager.account_usage_cache (today's counts)
    clients,        \* TelethonManager.clients (initialized account ids)
    ctask,          \* AIMessagingService.active_campaign_tasks, with the
                    \* position of each task in process_campaign
    running,        \* AIMessagingService.running
    sentToday,      \* observer: network sends that succeeded, per account
    lastPick,       \* observer: the last account get_available_account gave
    \* ---- LeadManager, one conversation
    convStatus,     \* ai_conversations.status
    hotLead,        \* a hot_leads row exists for the conversation
    handlers,       \* message_handler invocations, one per inbound message
    rtasks,         \* _process_delayed_response tasks, one per handler
    pending,        \* LeadManager.pending_response_tasks[conversation_id]
    replies,        \* replies sent into the conversation
    arrivedAfterFire, \* observer: an inbound message arrived after a delayed
                    \* response had left its 60 s wait
    history,        \* ai_conversations.conversation_history of the conversation
    arrivedStopped, \* observer: inbound messages that arrived while the
                    \* stored status was 'stopped'
    \* ---- functions and components checked on their own
    quietPeriods,   \* the `periods` argument of _is_sleep_time (texts)
    quietWindows,   \* observer: the windows the texts were written from
    localTime,      \* _get_local_time(...).time(), in seconds of the day
    isQuiet,        \* the value _is_sleep_time returned
    proxyNow,       \* datetime.utcnow() of the TelegramHandler, in ticks
    proxy_health_cache, \* TelegramHandler.proxy_health_cache, per proxy url
    handlerClients, \* TelegramHandler.clients: accounts with a cached client
    lastGetClient,  \* observer: the get_client call of the last step
    \* ---- OutreachWorker, one campaign with quiet hours and follow-ups
    followNow,      \* datetime.utcnow(), in hours
    followSafety,   \* _get_campaign_safety(campaign)
    followAccount,  \* the outreach_accounts row of the campaign's account
    followPassAccount, \* the account dict held by process_campaign
    followTargets,  \* outreach_targets.status, per target
    followChats,    \* store table outreach_chats, one chat per target
    followPassTargets, \* `targets` list held by _send_initial_messages
    followPassChats, \* `chats` list held by _check_for_replies (dict copies)
    followPc,       \* position of the worker in its iteration
    followSends,    \* observer: follow-ups sent, per chat
    followLast,     \* observer: the automatic send of the last step
    followEval,     \* observer: the _maybe_send_follow_up call of the last step
    \* ---- AIMessagingService.main_loop and its campaign tasks
    loopRunning,    \* self.running
    loopPc,         \* position of main_loop in its iteration
    active_campaign_tasks, \* self.active_campaign_tasks: campaign -> task
    loopTasks,      \* every task main_loop created: its campaign and state
    \* ---- CampaignRunner (To add/backend), one campaign
    runStatus,      \* campaign.status in the campaign's stored file
    running_campaigns, \* self.running_campaigns[campaign_id]: a process or none
    runProcs,       \* every process started: its state, exit code, log reader
    runStart,       \* position of a start_campaign call
    runStop,        \* position of a stop_campaign call
    stopReturned,   \* observer: stop_campaign returned True, no start since
    \* ---- LeadManager.process_campaign, the campaigns of one user
    is_contacted,   \* detected_leads.is_contacted, per lead
    conversations,  \* ai_conversations rows: <<campaign, lead>> pairs
    leadTasks,      \* per campaign: position of its task and its `leads` list
    leadPasses,     \* tasks main_loop has created, per campaign
    firstMessages,  \* observer: first messages delivered, per lead
    \* ---- TelegramHandler.get_client, the clients of one account
    tgClients,      \* every TelegramClient created: proxy, connected, authorized
    clientsEntry,   \* self.clients[account_id]: a client or none
    lastCall,       \* observer: the get_client call of the last step
    \* ---- ManualMessagingManager (backend/backend/python-service)
    message_queue,  \* message_queue.status, per queued message
    queueSendResult, \* observer: what telethon.send_message returned, per message
    queueAppended,  \* messages appended to their conversation_history
    \* ---- poll_client and handle_chat_session (To add/main.py), one chat
    chatMessages,   \* the messages of the chat: "in", "media" or "out"
    read_inbox_max_id, \* the read marker of the chat
    sessConnected,  \* client.is_connected()
    sessPc,         \* position of poll_client / handle_chat_session
    unread_hint,    \* dialog.unread_count as get_dialogs returned it
    batch,          \* the batch handed to _reply_once_for_batch
    last_confirmed_id, \* `last_confirmed_id` of handle_chat_session
    userProcessed,  \* already_processed(uid)
    pollPass,       \* observer: polls that opened a chat session
    processedBatches, \* observer: the batches dealt with, in order
    \* ---- _check_for_replies, one chat with several new messages
    rpMessages,     \* the messages of the chat, with their dates
    rpClock,        \* datetime.utcnow(), in ticks
    rpLastMessageAt, \* outreach_chats.last_message_at
    rpPc,           \* position of _check_for_replies in the chat
    new_messages,   \* `new_messages`, the part not yet processed
    rpLeadDetected, \* the chat has a lead status
    rpWindows,      \* observer: dialog windows opened so far
    rpReplies       \* observer: replies sent so far

workerVars ==
    <<now, accounts, targets, processedClients, manual, wpc, campaign,
      manualBatch, lastReset, passAccounts, passProcessed, passTargets,
      accountIndex, chats, messages, passChats, campaignRow, lastSelect,
      lastSend, lastClient, lastTurn, sentLog, faults>>

campaignVars ==
    <<tgAccounts, usedOrder, usageCache, clients, ctask, running, sentToday,
      lastPick>>

dialogVars ==
    <<convStatus, hotLead, handlers, rtasks, pending, replies, arrivedAfterFire,
      history, arrivedStopped>>

quietVars == <<quietPeriods, quietWindows, localTime, isQuiet>>

proxyVars == <<proxyNow, proxy_health_cache, handlerClients, lastGetClient>>

followVars ==
    <<followNow, followSafety, followAccount, followPassAccount,
      followTargets, followChats, followPassTargets, followPassChats,
      followPc, followSends, followLast, followEval>>

loopVars == <<loopRunning, loopPc, active_campaign_tasks, loopTasks>>

runnerVars ==
    <<runStatus, running_campaigns, runProcs, runStart, runStop, stopReturned>>

leadVars == <<is_contacted, conversations, leadTasks, leadPasses, firstMessages>>

clientVars == <<tgClients, clientsEntry, lastCall>>

queueVars == <<message_queue, queueSendResult, queueAppended>>

sessionVars ==
    <<chatMessages, read_inbox_max_id, sessConnected, sessPc, unread_hint,
      batch, last_confirmed_id, userProcessed, pollPass, processedBatches>>

replyPassVars ==
    <<rpMessages, rpClock, rpLastMessageAt, rpPc, new_messages,
      rpLeadDetected, rpWindows, rpReplies>>

moreVars ==
    <<loopVars, runnerVars, leadVars,
      clientVars, queueVars, sessionVars, replyPassVars>>

unitVars == <<quietVars, proxyVars, followVars, moreVars>>

vars == <<workerVars, campaignVars, dialogVars, unitVars>>

\* ------------------------------------------------------ usernames (text)
\* A username is a sequence of one-character strings.
UpperLetters ==
    <<"A", "B", "C", "D", "E", "F", "G", "H", "I", "J", "K", "L", "M", "N", "O",
     "P", "Q", "R", "S", "T", "U", "V", "W", "X", "Y", "Z">>

LowerLetters ==
    <<"a", "b", "c", "d", "e", "f", "g", "h", "i", "j", "k", "l", "m", "n", "o",
     "p", "q", "r", "s", "t", "u", "v", "w", "x", "y", "z">>

\* str.lower() of one character
LowerChar(c) ==
    IF \E i \in 1..26 : UpperLetters[i] = c
    THEN LowerLetters[CHOOSE i \in 1..26 : UpperLetters[i] = c]
    ELSE c

Lower(s) == [i \in 1..Len(s) |-> LowerChar(s[i])]

RECURSIVE LStrip(_, _)
LStrip(s, c) ==
    IF s # <<>> /\ Head(s) = c THEN LStrip(Tail(s), c) ELSE s

RECURSIVE RStrip(_, _)
RStrip(s, c) ==
    IF s # <<>> /\ s[Len(s)] = c THEN RStrip(SubSeq(s, 1, Len(s) - 1), c) ELSE s

Strip(s) == RStrip(LStrip(s, " "), " ")

\* _normalize_username: str(value).strip().lstrip('@').lower()
NormalizeUsername(value) ==
    IF value = <<>> THEN <<>> ELSE Lower(LStrip(Strip(value), "@"))

EndsWith(s, suf) ==
    Len(s) >= Len(suf) /\ SubSeq(s, Len(s) - Len(suf) + 1, Len(s)) = suf

StartsWith(s, pre) ==
    Len(s) >= Len(pre) /\ SubSeq(s, 1, Len(pre)) = pre

\* BOT_USERNAME_PREFIXES = ('i7', 'i8')
BotUsernamePrefixes == {<<"i", "7">>, <<"i", "8">>}

\* uname = username.lower().lstrip('@');
\* uname.endswith('bot') or uname.startswith(BOT_USERNAME_PREFIXES)
IsBotUsername(username) ==
    LET uname == LStrip(Lower(username), "@")
    IN  \/ EndsWith(uname, <<"b", "o", "t">>)
        \/ \E p \in BotUsernamePrefixes : StartsWith(uname, p)

\* campaign.get('ignore_bot_usernames', True)
IgnoreBotUsernames == TRUE

\* The import list: the username of each target as the operator typed it.
TargetUsername(t) ==
    CASE t = 1 -> <<"@", "A">>
      [] t = 2 -> <<"a", " ">>
      [] t = 3 -> <<"@", "B", "o", "t">>
      [] t = 4 -> <<"A">>
      [] OTHER -> <<"t">>

\* The import list: the campaign each target was imported into.
TargetCampaign(t) == IF t = 4 THEN 2 ELSE 1

\* Rows of outreach_processed_clients that may exist before the worker runs.
ProcessedPool == {[campaign_id |-> 1, target_username |-> <<"@", "A">>]}

\* ------------------------------------------------------------ text helpers
\* `sub in s`
Contains(s, sub) ==
    \E i \in 1..(Len(s) - Len(sub) + 1) : SubSeq(s, i, i + Len(sub) - 1) = sub

\* s.replace(c, '')
RemoveAll(s, c) == SelectSeq(s, LAMBDA x : x # c)

\* s.split(':')[-1]
RECURSIVE AfterLastColon(_)
AfterLastColon(s) ==
    IF \E i \in 1..Len(s) : s[i] = ":"
    THEN AfterLastColon(Tail(s))
    ELSE s

DigitChars == <<"0", "1", "2", "3", "4", "5", "6", "7", "8", "9">>

IsDigit(c) == \E d \in 1..10 : DigitChars[d] = c

DigitValue(c) == (CHOOSE d \in 1..10 : DigitChars[d] = c) - 1

\* str(n) of a natural number
RECURSIVE IntToText(_)
IntToText(n) ==
    IF n < 10
    THEN <<DigitChars[n + 1]>>
    ELSE IntToText(n \div 10) \o <<DigitChars[(n % 10) + 1]>>

\* int(s) of a text of decimal digits; None where int() raises ValueError
RECURSIVE DigitsToInt(_)
DigitsToInt(s) ==
    IF Len(s) = 1
    THEN DigitValue(s[1])
    ELSE 10 * DigitsToInt(SubSeq(s, 1, Len(s) - 1)) + DigitValue(s[Len(s)])

ParseInt(s) ==
    IF s # <<>> /\ \A i \in 1..Len(s) : IsDigit(s[i])
    THEN DigitsToInt(s)
    ELSE None

\* TelegramHandler.send_message: the error texts of its except clauses
FloodWaitText(seconds) ==
    <<"F", "l", "o", "o", "d", "W", "a", "i", "t", ":", " ">> \o IntToText(seconds) \o <<"s">>

PeerFloodText == <<"P", "e", "e", "r", "F", "l", "o", "o", "d", " ", "-", " ", "a", "c", "c", "o", "u", "n", "t", " ", "l", "i", "m", "i", "t", "e", "d">>

PrivacyText == <<"U", "s", "e", "r", " ", "p", "r", "i", "v", "a", "c", "y", " ", "r", "e", "s", "t", "r", "i", "c", "t", "e", "d">>

MutualText == <<"U", "s", "e", "r", " ", "n", "o", "t", " ", "m", "u", "t", "u", "a", "l", " ", "c", "o", "n", "t", "a", "c", "t">>

ForbiddenText == <<"C", "a", "n", "n", "o", "t", " ", "w", "r", "i", "t", "e", " ", "t", "o", " ", "u", "s", "e", "r">>

\* str(e) of an exception without a clause of its own
OtherErrorText == <<"C", "o", "n", "n", "e", "c", "t", "i", "o", "n", " ", "r", "e", "s", "e", "t">>

\* The error_message texts _send_initial_messages writes itself
BotUsernameText == <<"B", "o", "t", " ", "u", "s", "e", "r", "n", "a", "m", "e">>

ProcessedClientText ==
    <<"P", "r", "o", "c", "e", "s", "s", "e", "d", " ", "c", "l", "i", "e", "n", "t">>

\* --------------------------------------------------------- account rules
Today == now \div DayLen

\* OutreachWorker._is_account_in_cooldown
IsAccountInCooldown(account) ==
    account.cooldown_until # None /\ account.cooldown_until > now

\* OutreachWorker._get_messages_sent_today
GetMessagesSentToday(account) ==
    IF account.last_sent_date # None /\ account.last_sent_date # Today
    THEN 0
    ELSE account.messages_sent_today

\* A variant of the loop below that takes the account at the index without
\* testing it.
FindAtIndex(accs, index, left) ==
    IF left = 0
    THEN [pos |-> 0, index |-> index]
    ELSE [pos |-> (index % Len(accs)) + 1, index |-> index]

\* The account loop of _send_initial_messages: up to len(accounts) probes from
\* account_index; gives the position found (0: none) and the index reached.
RECURSIVE FindAvailable(_, _, _)
FindAvailable(accs, index, left) ==
    IF left = 0
    THEN [pos |-> 0, index |-> index]
    ELSE LET pos == (index % Len(accs)) + 1
             acc == accs[pos]
         IN  IF IsAccountInCooldown(acc)
             THEN FindAvailable(accs, index + 1, left - 1)
             ELSE IF GetMessagesSentToday(acc) < DailyLimit
                  THEN [pos |-> pos, index |-> index]
                  ELSE FindAvailable(accs, index + 1, left - 1)

\* OutreachSupabaseClient.get_outreach_accounts: status=eq.active, as a list
RECURSIVE ActiveAccountsFrom(_)
ActiveAccountsFrom(a) ==
    IF a > NumAccounts
    THEN <<>>
    ELSE IF accounts[a].status = "active"
         THEN <<[accounts[a] EXCEPT !.id = a]>> \o ActiveAccountsFrom(a + 1)
         ELSE ActiveAccountsFrom(a + 1)

GetOutreachAccounts == ActiveAccountsFrom(1)

\* A variant of the sweep below that reactivates no account.
ReactivateNothing(accs) == accs

\* OutreachSupabaseClient.reactivate_expired_cooldowns:
\* PATCH ...?status=eq.paused&cooldown_until=lte.now {'status': 'active'}
ReactivateExpiredCooldowns(accs) ==
    [a \in Accounts |->
        IF /\ accs[a].status = "paused"
           /\ accs[a].cooldown_until # None
           /\ accs[a].cooldown_until <= now
        THEN [accs[a] EXCEPT !.status = "active"]
        ELSE accs[a]]

\* OutreachSupabaseClient.reset_daily_counters:
\* PATCH ...?last_sent_date=lt.today {'messages_sent_today': 0}
ResetDailyCounters(accs, today) ==
    [a \in Accounts |->
        IF accs[a].last_sent_date # None /\ accs[a].last_sent_date < today
        THEN [accs[a] EXCEPT !.messages_sent_today = 0]
        ELSE accs[a]]

\* The write after a successful send: messages_today + 1, today's date
WithSendCounted(account, messagesToday) ==
    [account EXCEPT !.messages_sent_today = messagesToday + 1,
                    !.last_sent_date = Today]

\* The write after a flood error or a failed get_client
WithPause(account, seconds) ==
    [account EXCEPT !.status = "paused", !.cooldown_until = now + seconds]

\* OutreachSupabaseClient.get_pending_targets of a campaign, in id order
RECURSIVE PendingTargetsFrom(_, _)
PendingTargetsFrom(c, t) ==
    IF t > NumTargets
    THEN <<>>
    ELSE IF targets[t].status = "pending" /\ TargetCampaign(t) = c
         THEN <<t>> \o PendingTargetsFrom(c, t + 1)
         ELSE PendingTargetsFrom(c, t + 1)

\* A variant of the read below that returns every target not yet sent.
GetUnsentTargets(c) ==
    SelectSeq([i \in 1..NumTargets |-> i],
              LAMBDA t : TargetCampaign(t) = c
                         /\ targets[t].status \in {"pending", "failed"})

GetPendingTargets(c) == PendingTargetsFrom(c, 1)

\* OutreachSupabaseClient.get_pending_manual_messages, created_at ascending
RECURSIVE PendingManualFrom(_)
PendingManualFrom(m) ==
    IF m > NumManual
    THEN <<>>
    ELSE IF manual[m].status = "pending"
         THEN <<m>> \o PendingManualFrom(m + 1)
         ELSE PendingManualFrom(m + 1)

GetPendingManualMessages == PendingManualFrom(1)

\* OutreachSupabaseClient.get_processed_clients: campaign_id=eq.<campaign>
GetProcessedClients(c) == {r \in processedClients : r.campaign_id = c}

\* process_campaign: the set of normalized usernames of the processed rows
ProcessedUsernames(records) ==
    {NormalizeUsername(r.target_username) :
        r \in {x \in records : x.target_username # <<>>}}

\* TelegramHandler.get_client: a client, None, or an exception of the
\* statements it runs outside its try blocks (StringSession(...), int(api_id))
GetClientResults == {"client", "none", "raises"}

\* TelegramHandler.send_message: the (success, error) pairs it returns
SendResults ==
    {[ok |-> TRUE, error |-> <<>>]}
    \cup {[ok |-> FALSE, error |-> FloodWaitText(s)] : s \in 1..MaxFloodWait}
    \cup {[ok |-> FALSE, error |-> e] :
            e \in {PeerFloodText, PrivacyText, MutualText, ForbiddenText,
                   OtherErrorText}}

\* A variant of the test below that takes every error for a limit of the
\* account.
IsAnyError(error) == error # <<>>

\* 'flood' in error.lower()
IsFloodError(error) == Contains(Lower(error), <<"f", "l", "o", "o", "d">>)

\* cooldown_seconds of the flood branch of _send_initial_messages:
\* int(error.split(':')[-1].strip().replace('s', '')) for a FloodWait text,
\* account_cooldown_hours * 3600 otherwise and where int() raises
FloodCooldown(error) ==
    IF Contains(Lower(error), <<"f", "l", "o", "o", "d", "w", "a", "i", "t">>)
    THEN LET parsed == ParseInt(RemoveAll(Strip(AfterLastColon(error)), "s"))
         IN  IF parsed = None THEN CooldownTicks ELSE parsed
    ELSE CooldownTicks

\* Observer: the handle of a username as the peer owns it (no surrounding
\* blanks, no leading '@', letter case ignored).
Handle(username) == Lower(LStrip(RStrip(LStrip(username, " "), " "), "@"))

\* Observer: the store holds a ProcessedClient row of campaign c for the handle
\* of `username`.
HasProcessedRecord(c, username) ==
    /\ Handle(username) # <<>>
    /\ \E r \in processedClients :
          r.campaign_id = c /\ Handle(r.target_username) = Handle(username)

\* ------------------------------------------------- campaign rows and texts
\* campaign['message_template']
MessageTemplate == <<"h", "i">>

\* The text of an incoming message and of a queued manual message
IncomingText == <<"?">>
ManualContent == <<"m">>

\* campaign['trigger_phrase_positive'], campaign['trigger_phrase_negative']
TriggerPhrasePositive == <<"y", "e", "s">>
TriggerPhraseNegative == <<"n", "o">>

\* AIHandler.generate_response: the text of the model, or nothing (None) on a
\* status other than 200 and on any exception
NoText == <<>>
GenerateResults == {NoText, <<"o", "k">>, <<"Y", "e", "s">>, <<"n", "o">>}

\* The use_fallback_on_ai_fail and fallback_text columns of the campaign rows,
\* as the operator set them: the first campaign falls back to " X", the others
\* have the fallback switched off.
CampaignRow(c) ==
    IF c = 1
    THEN [use_fallback_on_ai_fail |-> TRUE, fallback_text |-> <<" ", "X">>]
    ELSE [use_fallback_on_ai_fail |-> FALSE, fallback_text |-> <<"X">>]

NoRow == [use_fallback_on_ai_fail |-> FALSE, fallback_text |-> <<>>]

\* A variant of the function below that takes the text column as it is stored.
GetLeadSettingsRaw(row) ==
    [use_fallback_on_ai_fail |-> row.use_fallback_on_ai_fail,
     fallback_text |-> row.fallback_text]

\* OutreachWorker._get_lead_settings: bool(...) and _text(...) of the columns
GetLeadSettings(row) ==
    [use_fallback_on_ai_fail |-> row.use_fallback_on_ai_fail,
     fallback_text |-> Strip(row.fallback_text)]

\* OutreachWorker._detect_lead_status
DetectLeadStatus(response) ==
    IF response = NoText
    THEN "none"
    ELSE IF Contains(Lower(response), Lower(TriggerPhrasePositive))
         THEN "lead"
         ELSE IF Contains(Lower(response), Lower(TriggerPhraseNegative))
              THEN "not_lead"
              ELSE "none"

\* main_loop, `for campaign in campaigns`: where the loop goes after campaign c
AfterCampaignPc(c) == IF c < NumOutreachCampaigns THEN "campaign" ELSE "idle"
AfterCampaignIx(c) == IF c < NumOutreachCampaigns THEN c + 1 ELSE 0

\* ------------------------------------------------------------- observers
\* Observer: a conversation with the peer who owns the handle of `username`
\* carries a lead outcome.
IsConcluded(username) ==
    \E t \in Targets :
        /\ chats[t].lead_status # "none"
        /\ Handle(chats[t].target_username) = Handle(username)

\* Observer: the successful sends of an account on day d
SentOn(a, d) == IF sentLog[a].day = d THEN sentLog[a].n ELSE 0

\* Observer: the log after one more successful send of account a
Logged(a) ==
    [sentLog EXCEPT ![a] = [day |-> Today, n |-> SentOn(a, Today) + 1]]

NoSend == [kind |-> "none", account |-> NoAccount, before |-> 0, target |-> 0,
           processed |-> FALSE, concluded |-> FALSE, error |-> <<>>,
           text |-> <<>>]
NoSelect == [account |-> NoAccount, cooled |-> FALSE]
NoChat == [status |-> "none", lead_status |-> "none", processed_at |-> FALSE,
           target_username |-> <<>>]
NoClientCall == [account |-> NoAccount, result |-> "none", target |-> 0]
NoTurn == [target |-> 0, generated |-> NoText, row |-> NoRow]

\* ------------------------------------------- idle state of the services
NoUsageRead == [messages_sent_today |-> 0, total_messages_sent |-> 0,
                reliability_score |-> 0]
IdleCampaignTask == [pc |-> "idle", account |-> NoAccount, left |-> 0,
                     read |-> NoUsageRead]
NoPick == [account |-> NoAccount, banned |-> {}]

\* account.get('reliability_score', 50), and the ceiling of the score
DefaultReliability == 50
MaxReliability == 100

\* The reliability scores the rows start with
ReliabilityScores == {DefaultReliability, MaxReliability - 1}

\* A telegram_accounts row with the given individual daily_limit
TelegramAccount(limit) ==
    [status |-> "active", is_available |-> TRUE, messages_sent_today |-> 0,
     daily_limit |-> limit, recently_used |-> FALSE,
     total_messages_sent |-> 0, reliability_score |-> DefaultReliability]

\* AIMessagingService not started
CampaignIdle ==
    /\ tgAccounts = [a \in Accounts |-> TelegramAccount(DailyLimit)]
    /\ usedOrder = <<>>
    /\ usageCache = [a \in Accounts |-> 0]
    /\ clients = {}
    /\ ctask = [c \in Campaigns |-> IdleCampaignTask]
    /\ running = FALSE
    /\ sentToday = [a \in Accounts |-> 0]
    /\ lastPick = NoPick

\* No conversation registered
DialogIdle ==
    /\ convStatus = "none"
    /\ hotLead = FALSE
    /\ handlers = [m \in Inbound |-> [pc |-> "none", awaits |-> 0]]
    /\ rtasks = [m \in Inbound |-> [pc |-> "none", fired |-> FALSE, fallback |-> FALSE]]
    /\ pending = 0
    /\ replies = 0
    /\ arrivedAfterFire = FALSE
    /\ history = <<>>
    /\ arrivedStopped = {}

\* _is_sleep_time not called
QuietIdle ==
    /\ quietPeriods = <<>>
    /\ quietWindows = <<>>
    /\ localTime = 0
    /\ isQuiet = "unset"

\* No cache entry for a proxy url
NoEntry == [ok |-> FALSE, checked_at |-> None]

NoGetClient ==
    [account |-> NoAccount, checked |-> FALSE, probed |-> FALSE, ok |-> FALSE,
     cached |-> NoEntry, result |-> "none"]

\* TelegramHandler.__init__
ProxyIdle ==
    /\ proxyNow = 0
    /\ proxy_health_cache = [r \in 1..NumRoutes |-> NoEntry]
    /\ handlerClients = {}
    /\ lastGetClient = NoGetClient

\* OutreachWorker, quiet gate and follow-ups: not started
NumFollowTargets == 2
MaxFollowTime == 3
FollowUpDelay == 1
StartHour == 7
FollowDailyLimit == 3

FollowTargets == 1..NumFollowTargets

NoFollowChat ==
    [status |-> "none", lead_status |-> "none", processed_at |-> FALSE,
     follow_up_sent_at |-> None, last_message_sender |-> "none",
     last_message_at |-> None]

NoFollowAccount ==
    [status |-> "none", cooldown_until |-> None, messages_sent_today |-> 0]

NoFollowSend ==
    [kind |-> "none", target |-> 0, quiet |-> FALSE, enabled |-> FALSE,
     chat |-> NoFollowChat, account |-> NoFollowAccount]

NoFollowEval == [target |-> 0, verdict |-> "none"]

FollowIdle ==
    /\ followNow = 0
    /\ followSafety = [sleep_periods |-> <<>>, follow_up_enabled |-> FALSE]
    /\ followAccount = NoFollowAccount
    /\ followPassAccount = NoFollowAccount
    /\ followTargets = [t \in FollowTargets |-> "pending"]
    /\ followChats = [t \in FollowTargets |-> NoFollowChat]
    /\ followPassTargets = <<>>
    /\ followPassChats = <<>>
    /\ followPc = "stopped"
    /\ followSends = [t \in FollowTargets |-> 0]
    /\ followLast = NoFollowSend
    /\ followEval = NoFollowEval

\* AIMessagingService.__init__
MaxLoopTasks == 4

LoopIdle ==
    /\ loopRunning = FALSE
    /\ loopPc = "stopped"
    /\ active_campaign_tasks = [c \in Campaigns |-> 0]
    /\ loopTasks = <<>>

\* CampaignRunner.__init__, the campaign as the API created it
MaxStarts == 2

RunnerIdle ==
    /\ runStatus = "draft"
    /\ running_campaigns = 0
    /\ runProcs = <<>>
    /\ runStart = "idle"
    /\ runStop = "idle"
    /\ stopReturned = FALSE

\* detected leads of one user and the running campaigns of that user
NumLeads == 2
NumUserCampaigns == 2
MaxLeadPasses == 2

Leads == 1..NumLeads
UserCampaigns == 1..NumUserCampaigns

LeadIdle ==
    /\ is_contacted = [l \in Leads |-> FALSE]
    /\ conversations = {}
    /\ leadTasks = [c \in UserCampaigns |-> [pc |-> "idle", leads |-> <<>>]]
    /\ leadPasses = [c \in UserCampaigns |-> 0]
    /\ firstMessages = [l \in Leads |-> 0]

\* TelegramHandler.__init__: no client; the proxy urls an account may carry
\* (0: no proxy_url)
MaxClients == 3
NumProxyUrls == 2

NoCall == [kind |-> "none", proxy_url |-> 0, returned |-> 0]

ClientIdle ==
    /\ tgClients = <<>>
    /\ clientsEntry = 0
    /\ lastCall = NoCall

\* the message_queue table without rows
NumQueued == 2

QueueIds == 1..NumQueued

QueueIdle ==
    /\ message_queue = [m \in QueueIds |-> "none"]
    /\ queueSendResult = [m \in QueueIds |-> "none"]
    /\ queueAppended = {}

\* no chat, no poll
MaxChatMessages == 5
MaxPolls == 3

SessionIdle ==
    /\ chatMessages = <<>>
    /\ read_inbox_max_id = 0
    /\ sessConnected = FALSE
    /\ sessPc = "idle"
    /\ unread_hint = 0
    /\ batch = <<>>
    /\ last_confirmed_id = 0
    /\ userProcessed = FALSE
    /\ pollPass = 0
    /\ processedBatches = <<>>

\* no chat under reply checks
MaxPassMessages == 7

ReplyPassIdle ==
    /\ rpMessages = <<>>
    /\ rpClock = 0
    /\ rpLastMessageAt = 0
    /\ rpPc = "idle"
    /\ new_messages = <<>>
    /\ rpLeadDetected = FALSE
    /\ rpWindows = 0
    /\ rpReplies = 0

MoreIdle ==
    /\ LoopIdle
    /\ RunnerIdle
    /\ LeadIdle
    /\ ClientIdle
    /\ QueueIdle
    /\ SessionIdle
    /\ ReplyPassIdle

UnitIdle ==
    /\ QuietIdle
    /\ ProxyIdle
    /\ FollowIdle
    /\ MoreIdle

\* OutreachWorker not started
WorkerIdle ==
    /\ now = 0
    /\ accounts = [a \in Accounts |->
                      [id |-> a, status |-> "active", cooldown_until |-> None,
                       messages_sent_today |-> 0, last_sent_date |-> None]]
    /\ targets = [t \in Targets |->
                      [status |-> "pending", username |-> TargetUsername(t),
                       error |-> <<>>, account |-> NoAccount,
                       lead_status |-> "none"]]
    /\ processedClients = {}
    /\ manual = [m \in ManualIds |->
                     [status |-> "none", account |-> NoAccount, chat |-> 0]]
    /\ wpc = "stopped"
    /\ campaign = 0
    /\ manualBatch = <<>>
    /\ lastReset = 0
    /\ passAccounts = <<>>
    /\ passProcessed = {}
    /\ passTargets = <<>>
    /\ accountIndex = 0
    /\ chats = [t \in Targets |-> NoChat]
    /\ messages = [t \in Targets |-> <<>>]
    /\ passChats = <<>>
    /\ campaignRow = NoRow
    /\ lastSelect = NoSelect
    /\ lastSend = NoSend
    /\ lastClient = NoClientCall
    /\ lastTurn = NoTurn
    /\ sentLog = [a \in Accounts |-> [day |-> None, n |-> 0]]
    /\ faults = 0

\* every component modelled above is not started
ServicesIdle ==
    /\ WorkerIdle
    /\ CampaignIdle
    /\ DialogIdle
    /\ QuietIdle
    /\ ProxyIdle
    /\ FollowIdle

\* ------------------------------------------------------------ worker init
\* The accounts table when the worker starts: the first account is active, every
\* other one is active or still paused by a cooldown of an earlier run.
ActiveAccount(a) ==
    [id |-> a, status |-> "active", cooldown_until |-> None,
     messages_sent_today |-> 0, last_sent_date |-> None]

InitialAccounts ==
    {accs \in [Accounts -> {ActiveAccount(a) : a \in Accounts}
                            \cup {WithPause(ActiveAccount(a), CooldownTicks) :
                                     a \in Accounts}] :
        /\ \A a \in Accounts : accs[a].id = a
        /\ accs[1].status = "active"}

WorkerInit ==
    /\ now = 0
    /\ accounts \in InitialAccounts
    /\ targets = [t \in Targets |->
                      [status |-> "pending", username |-> TargetUsername(t),
                       error |-> <<>>, account |-> NoAccount,
                       lead_status |-> "none"]]
    /\ processedClients \in SUBSET ProcessedPool
    /\ manual = [m \in ManualIds |->
                     [status |-> "none", account |-> NoAccount, chat |-> 0]]
    /\ wpc = "idle"
    /\ campaign = 0
    /\ manualBatch = <<>>
    /\ lastReset = 0
    /\ passAccounts = <<>>
    /\ passProcessed = {}
    /\ passTargets = <<>>
    /\ accountIndex = 0
    /\ chats = [t \in Targets |-> NoChat]
    /\ messages = [t \in Targets |-> <<>>]
    /\ passChats = <<>>
    /\ campaignRow = NoRow
    /\ lastSelect = NoSelect
    /\ lastSend = NoSend
    /\ lastClient = NoClientCall
    /\ lastTurn = NoTurn
    /\ sentLog = [a \in Accounts |-> [day |-> None, n |-> 0]]
    /\ faults = 0
    /\ CampaignIdle
    /\ DialogIdle
    /\ UnitIdle

\* Observer: the failures of the network and of the generator in one step, as
\* the observers of the step record them.  A behaviour holds at most MaxFaults.
FaultsOf(client, send, turn) ==
    (IF client.account # NoAccount /\ client.result # "client" THEN 1 ELSE 0)
    + (IF send.kind # "none" /\ send.error # <<>> THEN 1 ELSE 0)
    + (IF turn.target # 0 /\ turn.generated = NoText THEN 1 ELSE 0)

\* --------------------------------------------------------- worker actions
\* The clock advances while the worker sleeps or awaits.
Tick ==
    /\ now < MaxTime
    /\ now' = now + 1
    /\ lastSelect' = NoSelect
    /\ lastSend' = NoSend
    /\ lastClient' = NoClientCall
    /\ lastTurn' = NoTurn
    /\ UNCHANGED <<accounts, targets, processedClients, manual, wpc, campaign,
                   manualBatch, lastReset, passAccounts, passProcessed,
                   passTargets, accountIndex, chats, messages, passChats,
                   campaignRow, sentLog>>
    /\ UNCHANGED <<faults, campaignVars, dialogVars, unitVars>>

\* The UI queues a manual message in an existing chat, for the account of the
\* chat or without an account; the worker reads the queue at the top of its
\* next iteration.
EnqueueManual(m, a, t) ==
    /\ wpc = "idle"
    /\ manual[m].status = "none"
    /\ chats[t].status # "none"
    /\ a \in {NoAccount, targets[t].account}
    /\ manual' = [manual EXCEPT ![m] =
                     [status |-> "pending", account |-> a, chat |-> t]]
    /\ lastSelect' = NoSelect
    /\ lastSend' = NoSend
    /\ lastClient' = NoClientCall
    /\ lastTurn' = NoTurn
    /\ UNCHANGED <<now, accounts, targets, processedClients, wpc, campaign,
                   manualBatch, lastReset, passAccounts, passProcessed,
                   passTargets, accountIndex, chats, messages, passChats,
                   campaignRow, sentLog>>
    /\ UNCHANGED <<faults, campaignVars, dialogVars, unitVars>>

\* main_loop, top of an iteration: _process_manual_messages fetches its batch
FetchManualMessages ==
    /\ wpc = "idle"
    /\ manualBatch' = GetPendingManualMessages
    /\ wpc' = "manual"
    /\ lastSelect' = NoSelect
    /\ lastSend' = NoSend
    /\ lastClient' = NoClientCall
    /\ lastTurn' = NoTurn
    /\ UNCHANGED <<now, accounts, targets, processedClients, manual, campaign,
                   lastReset, passAccounts, passProcessed, passTargets,
                   accountIndex, chats, messages, passChats, campaignRow,
                   sentLog>>
    /\ UNCHANGED <<faults, campaignVars, dialogVars, unitVars>>

\* _process_manual_messages, one message of the batch
ProcessManualMessage ==
    /\ wpc = "manual"
    /\ manualBatch # <<>>
    /\ lastSelect' = NoSelect
    /\ lastTurn' = NoTurn
    /\ LET m == Head(manualBatch)
           a == manual[m].account
       IN  IF a = NoAccount
           THEN \* 'Missing chat/account/username' or 'Account not found'
                /\ manual' = [manual EXCEPT ![m].status = "failed"]
                /\ manualBatch' = Tail(manualBatch)
                /\ lastSend' = NoSend
                /\ lastClient' = NoClientCall
                /\ UNCHANGED <<accounts, wpc, sentLog, chats, messages>>
           ELSE \E client \in GetClientResults :
                /\ lastClient' = [account |-> a, result |-> client, target |-> 0]
                /\ CASE client = "raises" ->
                        \* the exception leaves _process_manual_messages and
                        \* is caught by main_loop, which sleeps
                        /\ manual' = [manual EXCEPT ![m].status = "processing"]
                        /\ manualBatch' = <<>>
                        /\ wpc' = "idle"
                        /\ lastSend' = NoSend
                        /\ UNCHANGED <<accounts, sentLog, chats, messages>>
                     [] client = "none" ->
                        /\ manual' = [manual EXCEPT ![m].status = "failed"]
                        /\ manualBatch' = Tail(manualBatch)
                        /\ lastSend' = NoSend
                        /\ UNCHANGED <<accounts, wpc, sentLog, chats, messages>>
                     [] OTHER ->
                        \E res \in SendResults :
                        /\ manualBatch' = Tail(manualBatch)
                        /\ lastSend' = [kind |-> "manual", account |-> a,
                                        before |-> GetMessagesSentToday(accounts[a]),
                                        target |-> 0, processed |-> FALSE,
                                        concluded |-> FALSE, error |-> res.error,
                                        text |-> ManualContent]
                        /\ IF res.ok
                           THEN /\ accounts' = [accounts EXCEPT ![a] =
                                       WithSendCounted(@, GetMessagesSentToday(accounts[a]))]
                                /\ manual' = [manual EXCEPT ![m].status = "sent"]
                                /\ sentLog' = Logged(a)
                                /\ messages' = [messages EXCEPT ![manual[m].chat] =
                                       Append(@, [sender |-> "me",
                                                  content |-> ManualContent])]
                                /\ chats' = [chats EXCEPT
                                       ![manual[m].chat].status = "manual"]
                           ELSE /\ manual' = [manual EXCEPT ![m].status = "failed"]
                                /\ UNCHANGED <<accounts, sentLog, chats, messages>>
                        /\ UNCHANGED wpc
    /\ UNCHANGED <<now, targets, processedClients, campaign, lastReset,
                   passAccounts, passProcessed, passTargets, accountIndex,
                   passChats, campaignRow>>
    /\ faults' = faults + FaultsOf(lastClient', lastSend', lastTurn')
    /\ faults' <= MaxFaults
    /\ UNCHANGED <<campaignVars, dialogVars, unitVars>>

\* main_loop after the manual queue: _check_daily_reset, then
\* reactivate_expired_cooldowns, then the fetch of the active campaigns
Maintenance ==
    /\ wpc = "manual"
    /\ manualBatch = <<>>
    /\ LET reset == IF Today > lastReset
                    THEN ResetDailyCounters(accounts, Today)
                    ELSE accounts
       IN  accounts' = ReactivateExpiredCooldowns(reset)
    /\ lastReset' = IF Today > lastReset THEN Today ELSE lastReset
    /\ wpc' = "campaign"
    /\ campaign' = 1
    /\ lastSelect' = NoSelect
    /\ lastSend' = NoSend
    /\ lastClient' = NoClientCall
    /\ lastTurn' = NoTurn
    /\ UNCHANGED <<now, targets, processedClients, manual, manualBatch,
                   passAccounts, passProcessed, passTargets, accountIndex,
                   chats, messages, passChats, campaignRow, sentLog>>
    /\ UNCHANGED <<faults, campaignVars, dialogVars, unitVars>>

\* process_campaign up to the target loop of _send_initial_messages
ProcessCampaign ==
    /\ wpc = "campaign"
    /\ IF GetOutreachAccounts = <<>>
       THEN \* 'No active accounts': return, the loop takes the next campaign
            /\ wpc' = AfterCampaignPc(campaign)
            /\ campaign' = AfterCampaignIx(campaign)
            /\ UNCHANGED <<passAccounts, passProcessed, passTargets, accountIndex>>
       ELSE /\ passAccounts' = GetOutreachAccounts
            /\ passProcessed' = ProcessedUsernames(GetProcessedClients(campaign))
            /\ passTargets' = GetPendingTargets(campaign)
            /\ accountIndex' = 0
            /\ wpc' = "initial"
            /\ UNCHANGED campaign
    /\ lastSelect' = NoSelect
    /\ lastSend' = NoSend
    /\ lastClient' = NoClientCall
    /\ lastTurn' = NoTurn
    /\ UNCHANGED <<now, accounts, targets, processedClients, manual, manualBatch,
                   lastReset, chats, messages, passChats, campaignRow, sentLog>>
    /\ UNCHANGED <<faults, campaignVars, dialogVars, unitVars>>

\* A variant of the test below that compares the username as typed.
IsProcessedTargetExact(username, processed) ==
    username # <<>> /\ username \in processed

\* The `username in processed_usernames` test of the target loop
IsProcessedTarget(username, processed) ==
    LET normalized == NormalizeUsername(username)
    IN  normalized # <<>> /\ normalized \in processed

\* OutreachSupabaseClient.get_or_create_chat: the row it creates
NewChat(username) ==
    [status |-> "active", lead_status |-> "none", processed_at |-> FALSE,
     target_username |-> RemoveAll(username, "@")]

\* _send_initial_messages, the body of `for target in targets`
SendInitialMessage ==
    /\ wpc = "initial"
    /\ passTargets # <<>>
    /\ lastTurn' = NoTurn
    /\ LET t == Head(passTargets)
           username == targets[t].username
           found == FindAvailable(passAccounts, accountIndex, Len(passAccounts))
       IN  IF IgnoreBotUsernames /\ IsBotUsername(username)
           THEN /\ targets' = [targets EXCEPT ![t].status = "failed",
                                             ![t].error = BotUsernameText]
                /\ passTargets' = Tail(passTargets)
                /\ lastSelect' = NoSelect
                /\ lastSend' = NoSend
                /\ lastClient' = NoClientCall
                /\ UNCHANGED <<accounts, passAccounts, accountIndex, chats,
                               messages, wpc, campaign, sentLog>>
           ELSE IF IsProcessedTarget(username, passProcessed)
           THEN /\ targets' = [targets EXCEPT ![t].status = "failed",
                                             ![t].error = ProcessedClientText]
                /\ passTargets' = Tail(passTargets)
                /\ lastSelect' = NoSelect
                /\ lastSend' = NoSend
                /\ lastClient' = NoClientCall
                /\ UNCHANGED <<accounts, passAccounts, accountIndex, chats,
                               messages, wpc, campaign, sentLog>>
           ELSE IF found.pos = 0
           THEN \* `break`: all accounts reached daily limit
                /\ passTargets' = <<>>
                /\ accountIndex' = found.index
                /\ lastSelect' = NoSelect
                /\ lastSend' = NoSend
                /\ lastClient' = NoClientCall
                /\ UNCHANGED <<accounts, targets, passAccounts, chats, messages,
                               wpc, campaign, sentLog>>
           ELSE LET account == passAccounts[found.pos]
                    a == account.id
                    messagesToday == GetMessagesSentToday(account)
                IN  /\ lastSelect' = [account |-> a,
                                      cooled |-> IsAccountInCooldown(accounts[a])]
                    /\ \E client \in GetClientResults :
                       /\ lastClient' = [account |-> a, result |-> client,
                                         target |-> t]
                       /\ CASE client = "raises" ->
                               \* the exception leaves _send_initial_messages;
                               \* process_campaign logs it and returns
                               /\ passTargets' = <<>>
                               /\ passAccounts' = <<>>
                               /\ accountIndex' = 0
                               /\ wpc' = AfterCampaignPc(campaign)
                               /\ campaign' = AfterCampaignIx(campaign)
                               /\ lastSend' = NoSend
                               /\ UNCHANGED <<accounts, targets, chats, messages,
                                              sentLog>>
                            [] client = "none" ->
                               \* pause the account, `continue`
                               /\ accounts' = [accounts EXCEPT ![a] =
                                                  WithPause(@, CooldownTicks)]
                               /\ accountIndex' = found.index + 1
                               /\ passTargets' = Tail(passTargets)
                               /\ lastSend' = NoSend
                               /\ UNCHANGED <<targets, passAccounts, chats,
                                              messages, wpc, campaign, sentLog>>
                            [] OTHER ->
                               \E res \in SendResults :
                               /\ accountIndex' = found.index + 1
                               /\ passTargets' = Tail(passTargets)
                               /\ lastSend' =
                                    [kind |-> "initial", account |-> a,
                                     before |-> GetMessagesSentToday(accounts[a]),
                                     target |-> t,
                                     processed |-> HasProcessedRecord(campaign, username),
                                     concluded |-> IsConcluded(username),
                                     error |-> res.error,
                                     text |-> MessageTemplate]
                               /\ IF res.ok
                                  THEN /\ targets' = [targets EXCEPT
                                              ![t].status = "sent",
                                              ![t].account = a]
                                       /\ chats' = [chats EXCEPT ![t] = NewChat(username)]
                                       /\ messages' = [messages EXCEPT ![t] =
                                              <<[sender |-> "me",
                                                 content |-> MessageTemplate]>>]
                                       /\ accounts' = [accounts EXCEPT ![a] =
                                              WithSendCounted(@, messagesToday)]
                                       /\ passAccounts' = [passAccounts EXCEPT
                                              ![found.pos] =
                                              WithSendCounted(@, messagesToday)]
                                       /\ sentLog' = Logged(a)
                                  ELSE /\ targets' = [targets EXCEPT
                                              ![t].status = "failed",
                                              ![t].error = res.error,
                                              ![t].account = a]
                                       /\ accounts' =
                                              IF IsFloodError(res.error)
                                              THEN [accounts EXCEPT ![a] =
                                                      WithPause(@, FloodCooldown(res.error))]
                                              ELSE accounts
                                       /\ UNCHANGED <<passAccounts, chats,
                                                      messages, sentLog>>
                               /\ UNCHANGED <<wpc, campaign>>
    /\ passProcessed' = IF wpc' = "initial" THEN passProcessed ELSE {}
    /\ UNCHANGED <<now, processedClients, manual, manualBatch, lastReset,
                   passChats, campaignRow>>
    /\ faults' = faults + FaultsOf(lastClient', lastSend', lastTurn')
    /\ faults' <= MaxFaults
    /\ UNCHANGED <<campaignVars, dialogVars, unitVars>>

\* OutreachSupabaseClient.get_active_chats_for_campaign:
\* campaign_id=eq.<campaign>&status=eq.active
RECURSIVE ActiveChatsFrom(_, _)
ActiveChatsFrom(c, t) ==
    IF t > NumTargets
    THEN <<>>
    ELSE IF chats[t].status = "active" /\ TargetCampaign(t) = c
         THEN <<t>> \o ActiveChatsFrom(c, t + 1)
         ELSE ActiveChatsFrom(c, t + 1)

GetActiveChatsForCampaign(c) == ActiveChatsFrom(c, 1)

\* next(a for a in accounts if str(a['id']) == account_id), as a position
AccountPosition(accs, id) ==
    IF \E i \in 1..Len(accs) : accs[i].id = id
    THEN CHOOSE i \in 1..Len(accs) : accs[i].id = id
    ELSE 0

\* The target loop is over; _check_for_replies reads the lead settings of the
\* campaign row and fetches the active chats.
StartCheckForReplies ==
    /\ wpc = "initial"
    /\ passTargets = <<>>
    /\ campaignRow' = CampaignRow(campaign)
    /\ passChats' = GetActiveChatsForCampaign(campaign)
    /\ wpc' = "replies"
    /\ lastSelect' = NoSelect
    /\ lastSend' = NoSend
    /\ lastClient' = NoClientCall
    /\ lastTurn' = NoTurn
    /\ UNCHANGED <<now, accounts, targets, processedClients, manual, campaign,
                   manualBatch, lastReset, passAccounts, passProcessed,
                   passTargets, accountIndex, chats, messages, sentLog>>
    /\ UNCHANGED <<faults, campaignVars, dialogVars, unitVars>>

\* The PATCH outreach_targets?username=eq.<username>&campaign_id=eq.<campaign>
PatchTargetsByUsername(tgts, c, username, field, value) ==
    [t \in Targets |->
        IF TargetCampaign(t) = c /\ tgts[t].username = username
        THEN [tgts[t] EXCEPT ![field] = value]
        ELSE tgts[t]]

\* OutreachSupabaseClient.add_processed_client: nothing without a username
AddProcessedClient(c, username) ==
    IF username = <<>>
    THEN processedClients
    ELSE processedClients \cup {[campaign_id |-> c, target_username |-> username]}

\* The response _check_for_replies goes on with after generate_response
WithFallback(response, settings) ==
    IF response = NoText /\ settings.use_fallback_on_ai_fail
                         /\ settings.fallback_text # <<>>
    THEN settings.fallback_text
    ELSE response

\* _check_for_replies, the body of `for chat in chats`, with at most one new
\* message of the peer, and _handle_lead_detection
CheckChatForReplies ==
    /\ wpc = "replies"
    /\ passChats # <<>>
    /\ lastSelect' = NoSelect
    /\ LET t == Head(passChats)
           chat == chats[t]
           pos == AccountPosition(passAccounts, targets[t].account)
           skip == /\ lastSend' = NoSend
                   /\ lastClient' = NoClientCall
                   /\ lastTurn' = NoTurn
                   /\ passChats' = Tail(passChats)
                   /\ UNCHANGED <<accounts, targets, processedClients,
                                  passAccounts, chats, messages, wpc, campaign,
                                  sentLog>>
       IN  IF \/ chat.status = "manual"
              \/ chat.lead_status # "none"
              \/ chat.processed_at
              \/ IsProcessedTarget(chat.target_username, passProcessed)
              \/ (IgnoreBotUsernames /\ IsBotUsername(chat.target_username))
              \/ pos = 0
           THEN skip
           ELSE IF IsAccountInCooldown(passAccounts[pos])
           THEN skip
           ELSE
           LET account == passAccounts[pos]
               a == account.id
               messagesToday == GetMessagesSentToday(account)
               settings == GetLeadSettings(campaignRow)
               incoming == [sender |-> "them", content |-> IncomingText]
           IN  \E client \in GetClientResults :
               /\ lastClient' = [account |-> a, result |-> client, target |-> t]
               /\ CASE client = "raises" ->
                       \* the exception leaves _check_for_replies;
                       \* process_campaign logs it and returns
                       /\ passChats' = <<>>
                       /\ passAccounts' = <<>>
                       /\ wpc' = AfterCampaignPc(campaign)
                       /\ campaign' = AfterCampaignIx(campaign)
                       /\ lastSend' = NoSend
                       /\ lastTurn' = NoTurn
                       /\ UNCHANGED <<accounts, targets, processedClients,
                                      chats, messages, sentLog>>
                    [] client = "none" ->
                       \* pause the account, `continue`
                       /\ accounts' = [accounts EXCEPT ![a] =
                                          WithPause(@, CooldownTicks)]
                       /\ passChats' = Tail(passChats)
                       /\ lastSend' = NoSend
                       /\ lastTurn' = NoTurn
                       /\ UNCHANGED <<targets, processedClients, passAccounts,
                                      chats, messages, wpc, campaign, sentLog>>
                    [] OTHER ->
                       /\ passChats' = Tail(passChats)
                       /\ UNCHANGED <<wpc, campaign>>
                       /\ \E newMessage \in BOOLEAN :
                          IF ~newMessage \/ Len(messages[t]) + 2 > MaxMessages
                          THEN \* no new message; follow-ups are not enabled
                               /\ lastSend' = NoSend
                               /\ lastTurn' = NoTurn
                               /\ UNCHANGED <<accounts, targets, processedClients,
                                              passAccounts, chats, messages,
                                              sentLog>>
                          ELSE IF \/ messagesToday >= DailyLimit
                                  \/ ~\E i \in 1..Len(messages[t]) :
                                         messages[t][i].sender = "me"
                          THEN \* should_reply = False
                               /\ messages' = [messages EXCEPT ![t] =
                                                  Append(@, incoming)]
                               /\ targets' = PatchTargetsByUsername(targets,
                                      campaign, chat.target_username,
                                      "status", "replied")
                               /\ lastSend' = NoSend
                               /\ lastTurn' = NoTurn
                               /\ UNCHANGED <<accounts, processedClients,
                                              passAccounts, chats, sentLog>>
                          ELSE \E generated \in GenerateResults :
                               LET response == WithFallback(generated, settings)
                               IN
                               /\ lastTurn' = [target |-> t,
                                               generated |-> generated,
                                               row |-> campaignRow]
                               /\ IF response = NoText
                                  THEN \* nothing to send for this message
                                       /\ messages' = [messages EXCEPT ![t] =
                                                          Append(@, incoming)]
                                       /\ targets' = PatchTargetsByUsername(targets,
                                              campaign, chat.target_username,
                                              "status", "replied")
                                       /\ lastSend' = NoSend
                                       /\ UNCHANGED <<accounts, processedClients,
                                                      passAccounts, chats, sentLog>>
                                  ELSE \E res \in SendResults :
                                       LET leadStatus == DetectLeadStatus(response)
                                       IN
                                       /\ lastSend' =
                                            [kind |-> "reply", account |-> a,
                                             before |-> GetMessagesSentToday(accounts[a]),
                                             target |-> t, processed |-> FALSE,
                                             concluded |-> FALSE,
                                             error |-> res.error,
                                             text |-> response]
                                       /\ IF ~res.ok
                                          THEN \* 'Failed to send AI reply'
                                               /\ messages' = [messages EXCEPT ![t] =
                                                      Append(@, incoming)]
                                               /\ targets' = PatchTargetsByUsername(
                                                      targets, campaign,
                                                      chat.target_username,
                                                      "status", "replied")
                                               /\ UNCHANGED <<accounts,
                                                      processedClients,
                                                      passAccounts, chats, sentLog>>
                                          ELSE /\ messages' = [messages EXCEPT ![t] =
                                                      @ \o <<incoming,
                                                             [sender |-> "me",
                                                              content |-> response]>>]
                                               /\ accounts' = [accounts EXCEPT ![a] =
                                                      WithSendCounted(@, messagesToday)]
                                               /\ passAccounts' = [passAccounts EXCEPT
                                                      ![pos] =
                                                      WithSendCounted(@, messagesToday)]
                                               /\ sentLog' = Logged(a)
                                               /\ IF leadStatus # "none"
                                                  THEN \* _handle_lead_detection,
                                                       \* then `break`
                                                       /\ chats' = [chats EXCEPT
                                                            ![t].lead_status = leadStatus,
                                                            ![t].processed_at = TRUE,
                                                            ![t].status = "manual"]
                                                       /\ targets' =
                                                            IF chat.target_username # <<>>
                                                            THEN PatchTargetsByUsername(
                                                                   targets, campaign,
                                                                   chat.target_username,
                                                                   "lead_status", leadStatus)
                                                            ELSE targets
                                                       /\ processedClients' =
                                                            IF chat.target_username # <<>>
                                                            THEN AddProcessedClient(campaign,
                                                                   NormalizeUsername(
                                                                     chat.target_username))
                                                            ELSE processedClients
                                                  ELSE /\ targets' = PatchTargetsByUsername(
                                                            targets, campaign,
                                                            chat.target_username,
                                                            "status", "replied")
                                                       /\ UNCHANGED <<chats,
                                                            processedClients>>
    /\ passProcessed' = IF wpc' = "replies" THEN passProcessed ELSE {}
    /\ accountIndex' = IF wpc' = "replies" THEN accountIndex ELSE 0
    /\ campaignRow' = IF wpc' = "replies" THEN campaignRow ELSE NoRow
    /\ UNCHANGED <<now, manual, manualBatch, lastReset, passTargets>>
    /\ faults' = faults + FaultsOf(lastClient', lastSend', lastTurn')
    /\ faults' <= MaxFaults
    /\ UNCHANGED <<campaignVars, dialogVars, unitVars>>

\* The chat loop is over; process_campaign returns and the loop over the
\* campaigns goes on, or the iteration ends and main_loop sleeps.
FinishCampaign ==
    /\ wpc = "replies"
    /\ passChats = <<>>
    /\ passAccounts' = <<>>
    /\ passProcessed' = {}
    /\ accountIndex' = 0
    /\ campaignRow' = NoRow
    /\ wpc' = AfterCampaignPc(campaign)
    /\ campaign' = AfterCampaignIx(campaign)
    /\ lastSelect' = NoSelect
    /\ lastSend' = NoSend
    /\ lastClient' = NoClientCall
    /\ lastTurn' = NoTurn
    /\ UNCHANGED <<now, accounts, targets, processedClients, manual, manualBatch,
                   lastReset, passTargets, chats, messages, passChats, sentLog>>
    /\ UNCHANGED <<faults, campaignVars, dialogVars, unitVars>>

WorkerNext ==
    \/ Tick
    \/ \E m \in ManualIds, a \in Accounts \cup {NoAccount}, t \in Targets :
          EnqueueManual(m, a, t)
    \/ FetchManualMessages
    \/ ProcessManualMessage
    \/ Maintenance
    \/ ProcessCampaign
    \/ SendInitialMessage
    \/ StartCheckForReplies
    \/ CheckChatForReplies
    \/ FinishCampaign

WorkerSpec == WorkerInit /\ [][WorkerNext]_vars

\* main_loop: `while self.running` awaits its steps one after the other (manual
\* queue, daily reset, reactivation, each campaign) and sleeps between two
\* iterations, so a step of the loop that can be taken is taken.
WorkerLoopStep ==
    \/ FetchManualMessages
    \/ ProcessManualMessage
    \/ Maintenance
    \/ ProcessCampaign
    \/ SendInitialMessage
    \/ StartCheckForReplies
    \/ CheckChatForReplies
    \/ FinishCampaign

\* The worker starts on tables an earlier run has left: the first target is
\* pending, the others were marked failed by that run (privacy restriction),
\* and no row of outreach_processed_clients exists.
WorkerFairInit ==
    /\ now = 0
    /\ accounts \in InitialAccounts
    /\ targets = [t \in Targets |->
                      [status |-> IF t = 1 THEN "pending" ELSE "failed",
                       username |-> TargetUsername(t),
                       error |-> IF t = 1 THEN <<>> ELSE PrivacyText,
                       account |-> NoAccount,
                       lead_status |-> "none"]]
    /\ processedClients = {}
    /\ manual = [m \in ManualIds |->
                     [status |-> "none", account |-> NoAccount, chat |-> 0]]
    /\ wpc = "idle"
    /\ campaign = 0
    /\ manualBatch = <<>>
    /\ lastReset = 0
    /\ passAccounts = <<>>
    /\ passProcessed = {}
    /\ passTargets = <<>>
    /\ accountIndex = 0
    /\ chats = [t \in Targets |-> NoChat]
    /\ messages = [t \in Targets |-> <<>>]
    /\ passChats = <<>>
    /\ campaignRow = NoRow
    /\ lastSelect = NoSelect
    /\ lastSend = NoSend
    /\ lastClient = NoClientCall
    /\ lastTurn = NoTurn
    /\ sentLog = [a \in Accounts |-> [day |-> None, n |-> 0]]
    /\ faults = 0
    /\ CampaignIdle
    /\ DialogIdle
    /\ UnitIdle

WorkerFairSpec ==
    WorkerFairInit /\ [][WorkerNext]_vars /\ WF_vars(WorkerLoopStep)

\* ============================================== AIMessagingService: campaigns
Max(x, y) == IF x >= y THEN x ELSE y
Min(x, y) == IF x <= y THEN x ELSE y

InSeq(x, seq) == \E i \in 1..Len(seq) : seq[i] = x

\* order=last_used_at.asc.nullsfirst: never used accounts, then by last use
RECURSIVE NeverUsedFrom(_)
NeverUsedFrom(a) ==
    IF a > NumAccounts
    THEN <<>>
    ELSE IF InSeq(a, usedOrder)
         THEN NeverUsedFrom(a + 1)
         ELSE <<a>> \o NeverUsedFrom(a + 1)

ByLastUsedAt == NeverUsedFrom(1) \o usedOrder

\* the Python filter of get_accounts_for_user
IsActiveAndAvailable(a) ==
    tgAccounts[a].status = "active" /\ tgAccounts[a].is_available

\* SupabaseClient.get_accounts_for_user
GetAccountsForUser == SelectSeq(ByLastUsedAt, IsActiveAndAvailable)

\* SafetyManager._is_daily_limit_reached: max(db counter, cache) >= limit
\* `limit = account.get('daily_limit')`, 3 where it is None
EffectiveLimit(a) ==
    IF tgAccounts[a].daily_limit = None
    THEN DefaultDailyLimit
    ELSE tgAccounts[a].daily_limit

\* A variant of the test below that applies the default to every account.
IsDefaultLimitReached(a) ==
    Max(tgAccounts[a].messages_sent_today, usageCache[a]) >= DefaultDailyLimit

IsDailyLimitReached(a) ==
    Max(tgAccounts[a].messages_sent_today, usageCache[a]) >= EffectiveLimit(a)

\* SafetyManager._needs_cooldown: last use less than ACCOUNT_COOLDOWN ago
NeedsCooldown(a) == tgAccounts[a].recently_used

IsSelectable(a) == ~IsDailyLimitReached(a) /\ ~NeedsCooldown(a)

\* SafetyManager.get_available_account
GetAvailableAccount ==
    LET free == SelectSeq(GetAccountsForUser, IsSelectable)
    IN  IF free = <<>> THEN NoAccount ELSE Head(free)

\* A pause that also rewrites the status column.
PauseAccountWithStatus(accs, a) ==
    [accs EXCEPT ![a].is_available = FALSE, ![a].status = "paused"]

\* SupabaseClient.pause_account: PATCH {'is_available': False}
PauseAccount(accs, a) == [accs EXCEPT ![a].is_available = FALSE]

\* SupabaseClient.mark_account_banned
MarkAccountBanned(accs, a) ==
    [accs EXCEPT ![a].status = "banned", ![a].is_available = FALSE]

\* SupabaseClient.get_stuck_accounts: status=eq.active&is_available=is.false
GetStuckAccounts ==
    {a \in Accounts : tgAccounts[a].status = "active" /\ ~tgAccounts[a].is_available}

\* SupabaseClient.unpause_account
UnpauseAccount(accs, a) == [accs EXCEPT ![a].is_available = TRUE]

BannedAccounts == {a \in Accounts : tgAccounts[a].status = "banned"}

\* The rows the service starts with: the first account has an individual
\* limit and the default score, every other one an individual limit or none
\* and any of the scores.
InitialTelegramAccounts ==
    {accs \in [Accounts -> {[TelegramAccount(l) EXCEPT !.reliability_score = r] :
                               l \in (1..DailyLimit) \cup {None},
                               r \in ReliabilityScores}] :
        /\ accs[1].daily_limit # None
        /\ accs[1].reliability_score = DefaultReliability}

\* The service starts with every account active and unused today.
CampaignInit ==
    /\ tgAccounts \in InitialTelegramAccounts
    /\ usedOrder = <<>>
    /\ usageCache = [a \in Accounts |-> 0]
    /\ clients = {}
    /\ ctask = [c \in Campaigns |-> IdleCampaignTask]
    /\ running = TRUE
    /\ sentToday = [a \in Accounts |-> 0]
    /\ lastPick = NoPick
    /\ WorkerIdle
    /\ DialogIdle
    /\ UnitIdle

\* main_loop: asyncio.create_task(self.process_campaign(campaign)); the task
\* fetches its uncontacted leads
StartCampaign(c) ==
    /\ running
    /\ ctask[c].pc = "idle"
    /\ ctask' = [ctask EXCEPT ![c].pc = "select", ![c].left = LeadsPerCampaign]
    /\ UNCHANGED <<tgAccounts, usedOrder, usageCache, clients, running,
                   sentToday, lastPick>>
    /\ UNCHANGED <<workerVars, dialogVars, unitVars>>

\* the lead is over without a send; the loop goes on after its sleep
NextLead(task) == [task EXCEPT !.pc = "select", !.left = @ - 1,
                               !.account = NoAccount, !.read = NoUsageRead]

\* LeadManager.process_campaign, the body of `for lead in leads` up to the
\* network send of _process_single_lead
SelectAccount(c) ==
    /\ ctask[c].pc = "select"
    /\ IF ctask[c].left = 0 \/ GetAvailableAccount = NoAccount
       THEN /\ ctask' = [ctask EXCEPT ![c].pc = "done"]
            /\ UNCHANGED <<tgAccounts, clients, lastPick>>
       ELSE LET a == GetAvailableAccount
            IN  /\ lastPick' = [account |-> a, banned |-> BannedAccounts]
                /\ \E init \in {"ok", "failed", "auth_key_unregistered"},
                      proceed \in BOOLEAN :
                      IF a \notin clients /\ init = "auth_key_unregistered"
                      THEN \* init_account: handle_account_ban, `continue`
                           /\ tgAccounts' = MarkAccountBanned(tgAccounts, a)
                           /\ ctask' = [ctask EXCEPT ![c] = NextLead(@)]
                           /\ UNCHANGED clients
                      ELSE IF a \notin clients /\ init = "failed"
                      THEN /\ ctask' = [ctask EXCEPT ![c] = NextLead(@)]
                           /\ UNCHANGED <<tgAccounts, clients>>
                      ELSE /\ clients' = clients \cup {a}
                           /\ UNCHANGED tgAccounts
                           /\ IF proceed
                              THEN ctask' = [ctask EXCEPT ![c].pc = "sending",
                                                          ![c].account = a]
                              ELSE \* not connected, no user info, a channel,
                                   \* or an existing conversation
                                   ctask' = [ctask EXCEPT ![c] = NextLead(@)]
    /\ UNCHANGED <<usedOrder, usageCache, running, sentToday>>
    /\ UNCHANGED <<workerVars, dialogVars, unitVars>>

\* TelethonManager.send_message: what the send comes back with
ServiceSendResults == {"success", "flood_wait", "banned", "error"}

\* _process_single_lead: the network send returns
SendCompletes(c) ==
    /\ ctask[c].pc = "sending"
    /\ LET a == ctask[c].account
       IN  \E res \in ServiceSendResults :
           CASE res = "success" ->
                    /\ sentToday' = [sentToday EXCEPT ![a] = @ + 1]
                    /\ ctask' = [ctask EXCEPT ![c].pc = "recorded"]
                    /\ UNCHANGED tgAccounts
             [] res = "flood_wait" ->
                    /\ tgAccounts' = PauseAccount(tgAccounts, a)
                    /\ ctask' = [ctask EXCEPT ![c] = NextLead(@)]
                    /\ UNCHANGED sentToday
             [] res = "banned" ->
                    /\ tgAccounts' = MarkAccountBanned(tgAccounts, a)
                    /\ ctask' = [ctask EXCEPT ![c] = NextLead(@)]
                    /\ UNCHANGED sentToday
             [] OTHER ->
                    /\ ctask' = [ctask EXCEPT ![c] = NextLead(@)]
                    /\ UNCHANGED <<tgAccounts, sentToday>>
    /\ UNCHANGED <<usedOrder, usageCache, clients, running, lastPick>>
    /\ UNCHANGED <<workerVars, dialogVars, unitVars>>

\* _process_single_lead after the send: create_conversation and
\* mark_lead_contacted have returned; mark_account_used counts the send in the
\* cache and update_account_usage issues its GET
RecordContact(c) ==
    /\ ctask[c].pc = "recorded"
    /\ usageCache' = [usageCache EXCEPT ![ctask[c].account] = @ + 1]
    /\ ctask' = [ctask EXCEPT ![c].pc = "usage_get"]
    /\ UNCHANGED <<tgAccounts, usedOrder, clients, running, sentToday, lastPick>>
    /\ UNCHANGED <<workerVars, dialogVars, unitVars>>

\* update_account_usage: the GET returns the current counter
UsageGet(c) ==
    /\ ctask[c].pc = "usage_get"
    /\ ctask' = [ctask EXCEPT ![c].pc = "usage_patch",
                             ![c].read =
                                 [f \in DOMAIN NoUsageRead |->
                                     tgAccounts[ctask[c].account][f]]]
    /\ UNCHANGED <<tgAccounts, usedOrder, usageCache, clients, running,
                   sentToday, lastPick>>
    /\ UNCHANGED <<workerVars, dialogVars, unitVars>>

Without(seq, a) == SelectSeq(seq, LAMBDA x : x # a)

\* update_account_usage: the PATCH writes counter + 1 and last_used_at
UsagePatch(c) ==
    /\ ctask[c].pc = "usage_patch"
    /\ LET a == ctask[c].account
       IN  /\ tgAccounts' = [tgAccounts EXCEPT
                                ![a].messages_sent_today =
                                    ctask[c].read.messages_sent_today + 1,
                                ![a].total_messages_sent =
                                    ctask[c].read.total_messages_sent + 1,
                                ![a].reliability_score =
                                    IF ctask[c].read.reliability_score < MaxReliability
                                    THEN Min(MaxReliability,
                                             ctask[c].read.reliability_score + 1)
                                    ELSE ctask[c].read.reliability_score,
                                ![a].recently_used = TRUE]
           /\ usedOrder' = Without(usedOrder, a) \o <<a>>
    /\ ctask' = [ctask EXCEPT ![c] = NextLead(@)]
    /\ UNCHANGED <<usageCache, clients, running, sentToday, lastPick>>
    /\ UNCHANGED <<workerVars, dialogVars, unitVars>>

\* ACCOUNT_COOLDOWN seconds have passed since the account was last used
CooldownElapses(a) ==
    /\ tgAccounts[a].recently_used
    /\ tgAccounts' = [tgAccounts EXCEPT ![a].recently_used = FALSE]
    /\ UNCHANGED <<usedOrder, usageCache, clients, ctask, running, sentToday,
                   lastPick>>
    /\ UNCHANGED <<workerVars, dialogVars, unitVars>>

\* main_loop: self.safety.check_and_recover_accounts()
CheckAndRecoverAccounts ==
    /\ running
    /\ GetStuckAccounts # {}
    /\ tgAccounts' = [a \in Accounts |->
                         IF a \in GetStuckAccounts
                         THEN UnpauseAccount(tgAccounts, a)[a]
                         ELSE tgAccounts[a]]
    /\ UNCHANGED <<usedOrder, usageCache, clients, ctask, running, sentToday,
                   lastPick>>
    /\ UNCHANGED <<workerVars, dialogVars, unitVars>>

\* AIMessagingService.shutdown: task.cancel() for every campaign task; each
\* is suspended at an await and ends there with CancelledError
Shutdown ==
    /\ running
    /\ running' = FALSE
    /\ ctask' = [c \in Campaigns |->
                    IF ctask[c].pc \in {"idle", "done"}
                    THEN ctask[c]
                    ELSE [ctask[c] EXCEPT !.pc = "cancelled"]]
    /\ UNCHANGED <<tgAccounts, usedOrder, usageCache, clients, sentToday, lastPick>>
    /\ UNCHANGED <<workerVars, dialogVars, unitVars>>

CampaignNext ==
    \/ \E c \in Campaigns : StartCampaign(c)
    \/ \E c \in Campaigns : SelectAccount(c)
    \/ \E c \in Campaigns : SendCompletes(c)
    \/ \E c \in Campaigns : RecordContact(c)
    \/ \E c \in Campaigns : UsageGet(c)
    \/ \E c \in Campaigns : UsagePatch(c)
    \/ \E a \in Accounts : CooldownElapses(a)
    \/ CheckAndRecoverAccounts
    \/ Shutdown

CampaignSpec == CampaignInit /\ [][CampaignNext]_vars

\* ================================================ LeadManager: one dialog
NoTask == 0

NoHandler == [pc |-> "none", awaits |-> NoTask]
NoResponseTask == [pc |-> "none", fired |-> FALSE, fallback |-> FALSE]

\* _process_delayed_response tasks that were created and have not ended
LiveTasks ==
    {t \in Inbound : rtasks[t].pc \in {"sleep", "compose", "hot", "respond",
                                       "save", "cancelling"}}

HasEnded(t) == rtasks[t].pc \in {"finished", "cancelled"}

\* _process_delayed_response: `if len(history) >= 12` and
\* `if len(user_messages) >= 3`
HistoryLimit == 12
MinRepeatMessages == 3

\* event.message.text of an inbound message, and the text of a reply
PeerTexts == {"a", "b"}
ReplyText == "r"

HistoryEntry(role, content) == [role |-> role, content |-> content]

\* create_conversation: the history starts with the first message
FirstHistory == <<HistoryEntry("assistant", ReplyText)>>

\* the stored history after five exchanges that stopped nothing
LongHistory ==
    [i \in 1..10 |->
        IF i % 2 = 1 THEN HistoryEntry("assistant", ReplyText)
        ELSE HistoryEntry("user", IF i % 4 = 2 THEN "a" ELSE "b")]

InitialHistories == {FirstHistory, LongHistory}

\* [msg['content'] for msg in history if msg['role'] == 'user']
RECURSIVE UserMessagesFrom(_, _)
UserMessagesFrom(h, i) ==
    IF i > Len(h) THEN <<>>
    ELSE IF h[i].role = "user"
         THEN <<h[i].content>> \o UserMessagesFrom(h, i + 1)
         ELSE UserMessagesFrom(h, i + 1)

UserMessages(h) == UserMessagesFrom(h, 1)

ReachedLimitLate(h) == Len(h) > HistoryLimit

\* `if len(history) >= 12`
ReachedLimit(h) == Len(h) >= HistoryLimit

\* `if len(user_messages) >= 3: if user_messages[-1] == user_messages[-2]`
RepeatedMessages(h) ==
    LET user_messages == UserMessages(h)
        n == Len(user_messages)
    IN  /\ n >= MinRepeatMessages
        /\ user_messages[n] = user_messages[n - 1]

\* add_message_to_conversation: the stored history with the message appended
AddMessageToConversation(h, role, content) ==
    Append(h, HistoryEntry(role, content))

\* _process_single_lead sent the first message, created the conversation and
\* registered message_handler for it.
DialogInit ==
    /\ convStatus = "active"
    /\ hotLead = FALSE
    /\ handlers = [m \in Inbound |-> NoHandler]
    /\ rtasks = [m \in Inbound |-> NoResponseTask]
    /\ pending = NoTask
    /\ replies = 0
    /\ arrivedAfterFire = FALSE
    /\ history \in InitialHistories
    /\ arrivedStopped = {}
    /\ WorkerIdle
    /\ CampaignIdle
    /\ UnitIdle

\* An inbound message of the peer: Telethon starts message_handler, which
\* awaits event.get_sender()
Arrive(m) ==
    /\ handlers[m].pc = "none"
    /\ m > 1 => handlers[m - 1].pc # "none"
    /\ handlers' = [handlers EXCEPT ![m].pc = "checks"]
    /\ arrivedAfterFire' = (arrivedAfterFire \/ \E t \in Inbound : rtasks[t].fired)
    /\ arrivedStopped' = IF convStatus = "stopped"
                         THEN arrivedStopped \cup {m} ELSE arrivedStopped
    /\ UNCHANGED <<convStatus, hotLead, rtasks, pending, replies, history>>
    /\ UNCHANGED <<workerVars, campaignVars, unitVars>>

\* message_handler: the bot and spam checks; then add_message_to_conversation
\* is awaited
HandlerChecks(m) ==
    /\ handlers[m].pc = "checks"
    /\ \E bot \in BOOLEAN :
          IF bot
          THEN /\ convStatus' = "stopped"
               /\ handlers' = [handlers EXCEPT ![m].pc = "done"]
               /\ UNCHANGED history
          ELSE /\ handlers' = [handlers EXCEPT ![m].pc = "add"]
               /\ \E new_message \in PeerTexts :
                     history' = AddMessageToConversation(history, "user", new_message)
               /\ UNCHANGED convStatus
    /\ UNCHANGED <<hotLead, rtasks, pending, replies, arrivedAfterFire, arrivedStopped>>
    /\ UNCHANGED <<workerVars, campaignVars, unitVars>>

\* asyncio.create_task(self._process_delayed_response(...)) and
\* self.pending_response_tasks[conversation_id] = task
ScheduleResponse(m) ==
    /\ rtasks' = [rtasks EXCEPT ![m] = [pc |-> "sleep", fired |-> FALSE, fallback |-> FALSE]]
    /\ pending' = m
    /\ handlers' = [handlers EXCEPT ![m] = [pc |-> "done", awaits |-> NoTask]]

\* message_handler, debouncing: cancel the registered task and await it, or
\* schedule the response at once
HandlerDebounce(m) ==
    /\ handlers[m].pc = "add"
    /\ IF pending = NoTask \/ HasEnded(pending)
       THEN /\ ScheduleResponse(m)
            /\ UNCHANGED replies
       ELSE /\ handlers' = [handlers EXCEPT ![m] = [pc |-> "await", awaits |-> pending]]
            /\ rtasks' = [rtasks EXCEPT ![pending].pc = "cancelling"]
            /\ UNCHANGED pending
            /\ IF rtasks[pending].pc = "respond"
               THEN \* cancelled during last_event.respond: sent or not
                    \E delivered \in BOOLEAN :
                        replies' = IF delivered THEN replies + 1 ELSE replies
               ELSE UNCHANGED replies
    /\ IF pending # NoTask /\ ~HasEnded(pending) /\ rtasks[pending].pc = "save"
       THEN \* cancelled during add_message_to_conversation: stored or not
            \E stored \in BOOLEAN :
                history' = IF stored
                           THEN AddMessageToConversation(history, "assistant", ReplyText)
                           ELSE history
       ELSE UNCHANGED history
    /\ UNCHANGED <<convStatus, hotLead, arrivedAfterFire, arrivedStopped>>
    /\ UNCHANGED <<workerVars, campaignVars, unitVars>>

\* message_handler: the awaited task has ended (CancelledError is passed over)
HandlerResume(m) ==
    /\ handlers[m].pc = "await"
    /\ HasEnded(handlers[m].awaits)
    /\ ScheduleResponse(m)
    /\ UNCHANGED <<convStatus, hotLead, replies, arrivedAfterFire, history, arrivedStopped>>
    /\ UNCHANGED <<workerVars, campaignVars, unitVars>>

\* _process_delayed_response, `finally`:
\* if conversation_id in self.pending_response_tasks: del ...
FinallyRegistry == NoTask

\* the task is resumed with CancelledError
TaskCancelled(t) ==
    /\ rtasks[t].pc = "cancelling"
    /\ rtasks' = [rtasks EXCEPT ![t].pc = "cancelled"]
    /\ pending' = FinallyRegistry
    /\ UNCHANGED <<convStatus, hotLead, handlers, replies, arrivedAfterFire, history, arrivedStopped>>
    /\ UNCHANGED <<workerVars, campaignVars, unitVars>>

\* the 60 s wait is over: history is read and checked, then
\* self.ai.generate_response is called
TaskWake(t) ==
    /\ rtasks[t].pc = "sleep"
    /\ IF ReachedLimit(history) \/ RepeatedMessages(history)
       THEN \* update_conversation_status(conversation_id, 'stopped'); return
            /\ convStatus' = "stopped"
            /\ rtasks' = [rtasks EXCEPT ![t] = [pc |-> "finished", fired |-> TRUE, fallback |-> FALSE]]
            /\ pending' = FinallyRegistry
       ELSE IF history = <<>>
       THEN \* `if not history: return`
            /\ rtasks' = [rtasks EXCEPT ![t] = [pc |-> "finished", fired |-> TRUE, fallback |-> FALSE]]
            /\ pending' = FinallyRegistry
            /\ UNCHANGED convStatus
       ELSE /\ rtasks' = [rtasks EXCEPT ![t] = [pc |-> "compose", fired |-> TRUE, fallback |-> FALSE]]
            /\ UNCHANGED <<convStatus, pending>>
    /\ UNCHANGED <<hotLead, handlers, replies, arrivedAfterFire, history, arrivedStopped>>
    /\ UNCHANGED <<workerVars, campaignVars, unitVars>>

\* AICommunicator.generate_response: what the call comes back with
ComposeResults == {"text", "hot_lead", "failed"}

\* ai.generate_response returns (response, is_hot_lead); when _call_ai raises
\* it returns its hard-coded fallback text with is_hot_lead False
TaskComposed(t) ==
    /\ rtasks[t].pc = "compose"
    /\ \E generated \in ComposeResults :
          rtasks' = [rtasks EXCEPT
                        ![t].pc = IF generated = "hot_lead" THEN "hot" ELSE "respond",
                        ![t].fallback = (generated = "failed")]
    /\ UNCHANGED <<convStatus, hotLead, handlers, pending, replies, arrivedAfterFire, history, arrivedStopped>>
    /\ UNCHANGED <<workerVars, campaignVars, unitVars>>

\* _handle_hot_lead: a new hot lead sets the status and creates the row, an
\* existing one only gets its history updated; no response is sent
TaskHotLead(t) ==
    /\ rtasks[t].pc = "hot"
    /\ IF hotLead
       THEN UNCHANGED <<convStatus, hotLead>>
       ELSE /\ convStatus' = "hot_lead"
            /\ hotLead' = TRUE
    /\ rtasks' = [rtasks EXCEPT ![t].pc = "finished"]
    /\ pending' = FinallyRegistry
    /\ UNCHANGED <<handlers, replies, arrivedAfterFire, history, arrivedStopped>>
    /\ UNCHANGED <<workerVars, campaignVars, unitVars>>

\* the short delay is over and last_event.respond(response) has returned
TaskResponded(t) ==
    /\ rtasks[t].pc = "respond"
    /\ replies' = replies + 1
    /\ rtasks' = [rtasks EXCEPT ![t].pc = "save"]
    /\ UNCHANGED <<convStatus, hotLead, handlers, pending, arrivedAfterFire, history, arrivedStopped>>
    /\ UNCHANGED <<workerVars, campaignVars, unitVars>>

\* add_message_to_conversation('assistant') has returned; the task ends
TaskSaved(t) ==
    /\ rtasks[t].pc = "save"
    /\ rtasks' = [rtasks EXCEPT ![t].pc = "finished"]
    /\ pending' = FinallyRegistry
    /\ history' = AddMessageToConversation(history, "assistant", ReplyText)
    /\ UNCHANGED <<convStatus, hotLead, handlers, replies, arrivedAfterFire, arrivedStopped>>
    /\ UNCHANGED <<workerVars, campaignVars, unitVars>>

DialogNext ==
    \/ \E m \in Inbound : Arrive(m)
    \/ \E m \in Inbound : HandlerChecks(m)
    \/ \E m \in Inbound : HandlerDebounce(m)
    \/ \E m \in Inbound : HandlerResume(m)
    \/ \E t \in Inbound : TaskCancelled(t)
    \/ \E t \in Inbound : TaskWake(t)
    \/ \E t \in Inbound : TaskComposed(t)
    \/ \E t \in Inbound : TaskHotLead(t)
    \/ \E t \in Inbound : TaskResponded(t)
    \/ \E t \in Inbound : TaskSaved(t)

DialogSpec == DialogInit /\ [][DialogNext]_vars

\* ============================================ quiet hours: _is_sleep_time
MaxWindows == 2

\* The clock values (minutes of the day) the configured windows are built of:
\* 00:00, 08:00, 13:00, 14:00, 21:00
WindowClocks == {0, 480, 780, 840, 1260}

\* The local times (seconds of the day) _is_sleep_time is called at: 00:00,
\* 07:00, 08:00, 08:00:30, 12:00, 13:00, 13:30, 14:00, 15:00, 21:00, 23:00
LocalTimes ==
    {0, 25200, 28800, 28830, 43200, 46800, 48600, 50400, 54000, 75600, 82800}

NoWindow == [start |-> None, end |-> None]
BadClockWindow == [start |-> 1440, end |-> 480]

WindowPool == [start : WindowClocks, end : WindowClocks]

\* f"{n:02d}"
TwoDigits(n) == IF n < 10 THEN <<"0">> \o IntToText(n) ELSE IntToText(n)

\* "HH:MM" of a minute of the day
ClockText(m) == TwoDigits(m \div 60) \o <<":">> \o TwoDigits(m % 60)

\* The text a window is configured as, "HH:MM-HH:MM"; a text without a
\* separator where no window is meant
PeriodText(w) ==
    IF w = NoWindow
    THEN <<"o", "f", "f">>
    ELSE ClockText(w.start) \o <<"-">> \o ClockText(w.end)

\* str.split(c)
RECURSIVE SplitOn(_, _)
SplitOn(s, c) ==
    IF ~\E i \in 1..Len(s) : s[i] = c
    THEN <<s>>
    ELSE LET i == CHOOSE k \in 1..Len(s) :
                     s[k] = c /\ \A j \in 1..(k - 1) : s[j] # c
         IN  <<SubSeq(s, 1, i - 1)>> \o SplitOn(SubSeq(s, i + 1, Len(s)), c)

\* _parse_sleep_period: ((start_hour, start_min), (end_hour, end_min)), or
\* None (here <<>>) where the unpacking or int() raises
NoPeriod == <<>>

ParseSleepPeriod(periodStr) ==
    LET parts == SplitOn(Strip(periodStr), "-")
    IN  IF Len(parts) # 2
        THEN NoPeriod
        ELSE LET st == SplitOn(Strip(parts[1]), ":")
                 en == SplitOn(Strip(parts[2]), ":")
             IN  IF Len(st) # 2 \/ Len(en) # 2
                 THEN NoPeriod
                 ELSE LET sh == ParseInt(Strip(st[1]))
                          sm == ParseInt(Strip(st[2]))
                          eh == ParseInt(Strip(en[1]))
                          em == ParseInt(Strip(en[2]))
                      IN  IF None \in {sh, sm, eh, em}
                          THEN NoPeriod
                          ELSE <<<<sh, sm>>, <<eh, em>>>>

\* datetime.strptime(f"{hour:02d}:{min:02d}", "%H:%M").time(), in seconds of
\* the day; None where strptime raises ValueError
ClockOf(hm) ==
    IF hm[1] \in 0..23 /\ hm[2] \in 0..59
    THEN (hm[1] * 60 + hm[2]) * 60
    ELSE None

\* A variant of the test below for which no window wraps.
WrapsMidnightNever(start, end) == FALSE

\* `if start > end` of _is_sleep_time
WrapsMidnight(start, end) == start > end

\* _is_sleep_time, the loop over the periods from position i on: "true",
\* "false", or "raises" where strptime raises
RECURSIVE SleepTimeFrom(_, _, _)
SleepTimeFrom(periods, i, t) ==
    IF i > Len(periods)
    THEN "false"
    ELSE LET parsed == ParseSleepPeriod(periods[i])
         IN  IF parsed = NoPeriod
             THEN SleepTimeFrom(periods, i + 1, t)
             ELSE LET start == ClockOf(parsed[1])
                      end == ClockOf(parsed[2])
                  IN  IF start = None \/ end = None
                      THEN "raises"
                      ELSE IF WrapsMidnight(start, end)
                      THEN IF t >= start \/ t <= end
                           THEN "true"
                           ELSE SleepTimeFrom(periods, i + 1, t)
                      ELSE IF start <= t /\ t <= end
                           THEN "true"
                           ELSE SleepTimeFrom(periods, i + 1, t)

IsSleepTime(periods, t) == SleepTimeFrom(periods, 1, t)

\* The configurations: up to MaxWindows entries, each a window, a text that
\* is no window, or a window with the hour 24
WindowLists ==
    UNION {[1..n -> WindowPool \cup {NoWindow, BadClockWindow}] :
              n \in 0..MaxWindows}

QuietInit ==
    /\ quietWindows \in WindowLists
    /\ quietPeriods = [i \in 1..Len(quietWindows) |-> PeriodText(quietWindows[i])]
    /\ localTime \in LocalTimes
    /\ isQuiet = "unset"
    /\ WorkerIdle
    /\ CampaignIdle
    /\ DialogIdle
    /\ ProxyIdle
    /\ FollowIdle
    /\ MoreIdle

\* A caller evaluates _is_sleep_time(periods, timezone_offset)
CallIsSleepTime ==
    /\ isQuiet' = IsSleepTime(quietPeriods, localTime)
    /\ UNCHANGED <<quietPeriods, quietWindows, localTime>>
    /\ UNCHANGED <<workerVars, campaignVars, dialogVars, proxyVars, followVars, moreVars>>

\* The clock moves on to a later time of the day
ClockAdvances(t) ==
    /\ t > localTime
    /\ localTime' = t
    /\ isQuiet' = "unset"
    /\ UNCHANGED <<quietPeriods, quietWindows>>
    /\ UNCHANGED <<workerVars, campaignVars, dialogVars, proxyVars, followVars, moreVars>>

QuietNext ==
    \/ CallIsSleepTime
    \/ \E t \in LocalTimes : ClockAdvances(t)

QuietSpec == QuietInit /\ [][QuietNext]_vars

\* ============================== OutreachWorker: quiet gate and follow-ups
\* One campaign with one account, plain usernames and no processed clients;
\* the clock counts hours from StartHour o'clock local time.
\* _get_local_time(timezone_offset).time(), in seconds of the day
FollowLocalTime(t) == ((StartHour + t) % 24) * 3600

\* The quiet window a campaign may configure: 08:00-09:00
FollowWindow == [start |-> 480, end |-> 540]

\* _get_campaign_safety: the settings read here
FollowSafeties ==
    [sleep_periods : {<<>>, <<PeriodText(FollowWindow)>>},
     follow_up_enabled : BOOLEAN]

FollowInit ==
    /\ followNow = 0
    /\ followSafety \in FollowSafeties
    /\ followAccount = [status |-> "active", cooldown_until |-> None,
                        messages_sent_today |-> 0]
    /\ followPassAccount = NoFollowAccount
    /\ followTargets = [t \in FollowTargets |-> "pending"]
    /\ followChats = [t \in FollowTargets |-> NoFollowChat]
    /\ followPassTargets = <<>>
    /\ followPassChats = <<>>
    /\ followPc = "idle"
    /\ followSends = [t \in FollowTargets |-> 0]
    /\ followLast = NoFollowSend
    /\ followEval = NoFollowEval
    /\ WorkerIdle
    /\ CampaignIdle
    /\ DialogIdle
    /\ QuietIdle
    /\ ProxyIdle
    /\ MoreIdle

\* `if _is_sleep_time(sleep_periods, timezone_offset)`
FollowQuiet(t) ==
    IsSleepTime(followSafety.sleep_periods, FollowLocalTime(t)) = "true"

\* _is_account_in_cooldown of an account dict
FollowInCooldown(account) ==
    account.cooldown_until # None /\ account.cooldown_until > followNow

\* The write after a flood error or a failed get_client
FollowPaused(account) ==
    [account EXCEPT !.status = "paused",
                    !.cooldown_until = followNow + CooldownTicks]

\* The counter write after a successful send: messages_today + 1
FollowCounted(account, messagesToday) ==
    [account EXCEPT !.messages_sent_today = messagesToday + 1]

\* add_message(chat_id, 'me' | 'them', ...): last_message_at, last_message_sender
FollowMessageAdded(chat, sender) ==
    [chat EXCEPT !.last_message_sender = sender, !.last_message_at = followNow]

\* get_pending_targets, in id order
RECURSIVE FollowPendingFrom(_)
FollowPendingFrom(t) ==
    IF t > NumFollowTargets
    THEN <<>>
    ELSE IF followTargets[t] = "pending"
         THEN <<t>> \o FollowPendingFrom(t + 1)
         ELSE FollowPendingFrom(t + 1)

\* get_active_chats_for_campaign: the rows with status active, as dict copies
RECURSIVE FollowActiveChatsFrom(_)
FollowActiveChatsFrom(t) ==
    IF t > NumFollowTargets
    THEN <<>>
    ELSE IF followChats[t].status = "active"
         THEN <<[id |-> t, row |-> followChats[t]]>> \o FollowActiveChatsFrom(t + 1)
         ELSE FollowActiveChatsFrom(t + 1)

\* A variant of the test below that finds no chat marked.
FollowUpNeverSent(chat) == FALSE

\* `if chat.get('follow_up_sent_at'): return`
FollowUpAlreadySent(chat) == chat.follow_up_sent_at # None

\* _maybe_send_follow_up, its guards in order: the guard that returns, or due
FollowUpVerdict(chat, account, enabled) ==
    IF ~enabled THEN "disabled"
    ELSE IF chat.lead_status # "none" THEN "lead"
    ELSE IF chat.processed_at THEN "processed"
    ELSE IF FollowUpAlreadySent(chat) THEN "already_sent"
    ELSE IF chat.last_message_sender # "me" THEN "not_ours"
    ELSE IF chat.last_message_at = None THEN "no_time"
    ELSE IF followNow - chat.last_message_at < FollowUpDelay THEN "too_early"
    ELSE IF account.messages_sent_today >= FollowDailyLimit THEN "limit"
    ELSE "due"

\* The clock advances while the worker sleeps or awaits.
FollowTick ==
    /\ followNow < MaxFollowTime
    /\ followNow' = followNow + 1
    /\ followLast' = NoFollowSend
    /\ followEval' = NoFollowEval
    /\ UNCHANGED <<followSafety, followAccount, followPassAccount,
                   followTargets, followChats, followPassTargets,
                   followPassChats, followPc, followSends>>
    /\ UNCHANGED <<workerVars, campaignVars, dialogVars, quietVars, proxyVars, moreVars>>

\* main_loop: reactivate_expired_cooldowns, then process_campaign up to the
\* target loop of _send_initial_messages
FollowProcessCampaign ==
    /\ followPc = "idle"
    /\ LET row == IF /\ followAccount.status = "paused"
                     /\ followAccount.cooldown_until # None
                     /\ followAccount.cooldown_until <= followNow
                  THEN [followAccount EXCEPT !.status = "active"]
                  ELSE followAccount
       IN  /\ followAccount' = row
           /\ IF row.status # "active"
              THEN \* 'No active accounts': return
                   UNCHANGED <<followPassAccount, followPassTargets, followPc>>
              ELSE /\ followPassAccount' = row
                   /\ followPc' = "initial"
                   /\ followPassTargets' =
                         IF FollowQuiet(followNow)
                         THEN <<>>
                         ELSE FollowPendingFrom(1)
    /\ followLast' = NoFollowSend
    /\ followEval' = NoFollowEval
    /\ UNCHANGED <<followNow, followSafety, followTargets, followChats,
                   followPassChats, followSends>>
    /\ UNCHANGED <<workerVars, campaignVars, dialogVars, quietVars, proxyVars, moreVars>>

\* _send_initial_messages, the body of `for target in targets`
FollowSendInitial ==
    /\ followPc = "initial"
    /\ followPassTargets # <<>>
    /\ followEval' = NoFollowEval
    /\ LET t == Head(followPassTargets)
           account == followPassAccount
           messagesToday == account.messages_sent_today
       IN  IF FollowInCooldown(account) \/ messagesToday >= FollowDailyLimit
           THEN \* `break`
                /\ followPassTargets' = <<>>
                /\ followLast' = NoFollowSend
                /\ UNCHANGED <<followAccount, followPassAccount, followTargets,
                               followChats>>
           ELSE \E client \in {"client", "none"} :
                IF client = "none"
                THEN \* pause the account, `continue`
                     /\ followAccount' = FollowPaused(followAccount)
                     /\ followPassTargets' = Tail(followPassTargets)
                     /\ followLast' = NoFollowSend
                     /\ UNCHANGED <<followPassAccount, followTargets, followChats>>
                ELSE \E res \in {"ok", "flood", "error"} :
                     /\ followPassTargets' = Tail(followPassTargets)
                     /\ followLast' =
                           IF res = "ok"
                           THEN [kind |-> "initial", target |-> t,
                                 quiet |-> FollowQuiet(followNow),
                                 enabled |-> followSafety.follow_up_enabled,
                                 chat |-> followChats[t],
                                 account |-> followAccount]
                           ELSE NoFollowSend
                     /\ CASE res = "ok" ->
                             /\ followTargets' = [followTargets EXCEPT ![t] = "sent"]
                             /\ followChats' = [followChats EXCEPT ![t] =
                                   FollowMessageAdded(
                                      [NoFollowChat EXCEPT !.status = "active"], "me")]
                             /\ followAccount' = FollowCounted(followAccount, messagesToday)
                             /\ followPassAccount' = FollowCounted(account, messagesToday)
                          [] res = "flood" ->
                             /\ followTargets' = [followTargets EXCEPT ![t] = "failed"]
                             /\ followAccount' = FollowPaused(followAccount)
                             /\ UNCHANGED <<followPassAccount, followChats>>
                          [] OTHER ->
                             /\ followTargets' = [followTargets EXCEPT ![t] = "failed"]
                             /\ UNCHANGED <<followAccount, followPassAccount, followChats>>
    /\ UNCHANGED <<followNow, followSafety, followPassChats, followPc, followSends>>
    /\ UNCHANGED <<workerVars, campaignVars, dialogVars, quietVars, proxyVars, moreVars>>

\* The target loop is over; _check_for_replies evaluates the quiet gate and
\* fetches the active chats.
FollowStartCheckForReplies ==
    /\ followPc = "initial"
    /\ followPassTargets = <<>>
    /\ followPc' = "replies"
    /\ followPassChats' = IF FollowQuiet(followNow)
                          THEN <<>>
                          ELSE FollowActiveChatsFrom(1)
    /\ followLast' = NoFollowSend
    /\ followEval' = NoFollowEval
    /\ UNCHANGED <<followNow, followSafety, followAccount, followPassAccount,
                   followTargets, followChats, followPassTargets, followSends>>
    /\ UNCHANGED <<workerVars, campaignVars, dialogVars, quietVars, proxyVars, moreVars>>

\* _check_for_replies, the body of `for chat in chats`, with at most one new
\* message of the peer, _maybe_send_follow_up and _handle_lead_detection
FollowCheckChat ==
    /\ followPc = "replies"
    /\ followPassChats # <<>>
    /\ followPassChats' = Tail(followPassChats)
    /\ LET t == Head(followPassChats).id
           chat == Head(followPassChats).row
           account == followPassAccount
           messagesToday == account.messages_sent_today
           skip == /\ followLast' = NoFollowSend
                   /\ followEval' = NoFollowEval
                   /\ UNCHANGED <<followAccount, followPassAccount,
                                  followTargets, followChats, followSends>>
       IN  IF \/ chat.status = "manual"
              \/ chat.lead_status # "none"
              \/ chat.processed_at
              \/ FollowInCooldown(account)
           THEN skip
           ELSE \E client \in {"client", "none"} :
                IF client = "none"
                THEN \* pause the account, `continue`
                     /\ followAccount' = FollowPaused(followAccount)
                     /\ followLast' = NoFollowSend
                     /\ followEval' = NoFollowEval
                     /\ UNCHANGED <<followPassAccount, followTargets,
                                    followChats, followSends>>
                ELSE \E newMessage \in BOOLEAN :
                     IF ~newMessage
                     THEN \* _maybe_send_follow_up
                          LET verdict == FollowUpVerdict(chat, account,
                                            followSafety.follow_up_enabled)
                          IN  /\ followEval' = [target |-> t, verdict |-> verdict]
                              /\ \E sent \in BOOLEAN :
                                 IF verdict = "due" /\ sent
                                 THEN /\ followLast' =
                                           [kind |-> "follow_up", target |-> t,
                                            quiet |-> FollowQuiet(followNow),
                                            enabled |-> followSafety.follow_up_enabled,
                                            chat |-> followChats[t],
                                            account |-> followAccount]
                                      /\ followChats' = [followChats EXCEPT ![t] =
                                            [FollowMessageAdded(@, "me") EXCEPT
                                                !.follow_up_sent_at = followNow]]
                                      /\ followAccount' =
                                            FollowCounted(followAccount, messagesToday)
                                      /\ followPassAccount' =
                                            FollowCounted(account, messagesToday)
                                      /\ followSends' = [followSends EXCEPT ![t] = @ + 1]
                                      /\ UNCHANGED followTargets
                                 ELSE \* a guard returned, nothing was
                                      \* generated, or the send failed
                                      /\ followLast' = NoFollowSend
                                      /\ UNCHANGED <<followAccount, followPassAccount,
                                                     followTargets, followChats,
                                                     followSends>>
                     ELSE \* the message of the peer is saved; the reply
                          \* is generated and sent unless the limit is reached
                          /\ followEval' = NoFollowEval
                          /\ UNCHANGED followSends
                          /\ \E replied \in BOOLEAN, lead \in BOOLEAN :
                             IF messagesToday >= FollowDailyLimit \/ ~replied
                             THEN /\ followChats' = [followChats EXCEPT ![t] =
                                        FollowMessageAdded(@, "them")]
                                  /\ followTargets' = [followTargets EXCEPT ![t] = "replied"]
                                  /\ followLast' = NoFollowSend
                                  /\ UNCHANGED <<followAccount, followPassAccount>>
                             ELSE /\ followLast' =
                                       [kind |-> "reply", target |-> t,
                                        quiet |-> FollowQuiet(followNow),
                                        enabled |-> followSafety.follow_up_enabled,
                                        chat |-> followChats[t],
                                        account |-> followAccount]
                                  /\ followAccount' =
                                        FollowCounted(followAccount, messagesToday)
                                  /\ followPassAccount' =
                                        FollowCounted(account, messagesToday)
                                  /\ IF lead
                                     THEN \* _handle_lead_detection, then `break`
                                          /\ followChats' = [followChats EXCEPT ![t] =
                                                [FollowMessageAdded(@, "me") EXCEPT
                                                    !.lead_status = "lead",
                                                    !.processed_at = TRUE,
                                                    !.status = "manual"]]
                                          /\ UNCHANGED followTargets
                                     ELSE /\ followChats' = [followChats EXCEPT ![t] =
                                                FollowMessageAdded(@, "me")]
                                          /\ followTargets' =
                                                [followTargets EXCEPT ![t] = "replied"]
    /\ UNCHANGED <<followNow, followSafety, followPassTargets, followPc>>
    /\ UNCHANGED <<workerVars, campaignVars, dialogVars, quietVars, proxyVars, moreVars>>

\* The chat loop is over; process_campaign returns and main_loop sleeps.
FollowFinishCampaign ==
    /\ followPc = "replies"
    /\ followPassChats = <<>>
    /\ followPc' = "idle"
    /\ followPassAccount' = NoFollowAccount
    /\ followLast' = NoFollowSend
    /\ followEval' = NoFollowEval
    /\ UNCHANGED <<followNow, followSafety, followAccount, followTargets,
                   followChats, followPassTargets, followPassChats, followSends>>
    /\ UNCHANGED <<workerVars, campaignVars, dialogVars, quietVars, proxyVars, moreVars>>

FollowNext ==
    \/ FollowTick
    \/ FollowProcessCampaign
    \/ FollowSendInitial
    \/ FollowStartCheckForReplies
    \/ FollowCheckChat
    \/ FollowFinishCampaign

FollowSpec == FollowInit /\ [][FollowNext]_vars

\* ======================================= TelegramHandler: proxy health cache
Routes == 1..NumRoutes

\* account['proxy_url'] of an account: the accounts share the proxy urls
ProxyUrl(a) == ((a - 1) % NumRoutes) + 1

\* A variant of the test below for which an entry never expires.
IsFreshForever(entry, t) == entry # NoEntry

\* `checked_at and (utcnow() - checked_at).total_seconds() < 600`
IsFresh(entry, t) == entry # NoEntry /\ t - entry.checked_at < ProxyTtl

ProxyInit ==
    /\ ProxyIdle
    /\ WorkerIdle
    /\ CampaignIdle
    /\ DialogIdle
    /\ QuietIdle
    /\ FollowIdle
    /\ MoreIdle

\* Time passes between two calls of get_client
ProxyTick ==
    /\ proxyNow < MaxProxyTime
    /\ proxyNow' = proxyNow + 1
    /\ lastGetClient' = NoGetClient
    /\ UNCHANGED <<proxy_health_cache, handlerClients>>
    /\ UNCHANGED <<workerVars, campaignVars, dialogVars, quietVars, followVars, moreVars>>

\* TelegramHandler.get_client(account) with _check_proxy, for an account with
\* session data and a proxy url.  `held` tells what becomes of a cached
\* client: it is connected or reconnects, or its reconnect raises and it is
\* dropped; `probe` is the outcome of the deep check, `connect` that of
\* connect() and is_user_authorized().
GetClient(a, held, probe, connect) ==
    LET url == ProxyUrl(a)
        entry == proxy_health_cache[url]
        fresh == IsFresh(entry, proxyNow)
        ok == IF fresh THEN entry.ok ELSE probe
    IN  IF a \in handlerClients /\ held
        THEN /\ lastGetClient' = [NoGetClient EXCEPT !.account = a,
                                                     !.result = "client"]
             /\ UNCHANGED <<proxy_health_cache, handlerClients>>
        ELSE /\ proxy_health_cache' =
                   IF fresh
                   THEN proxy_health_cache
                   ELSE [proxy_health_cache EXCEPT ![url] =
                            [ok |-> probe, checked_at |-> proxyNow]]
             /\ handlerClients' =
                   IF ok /\ connect
                   THEN handlerClients \cup {a}
                   ELSE handlerClients \ {a}
             /\ lastGetClient' =
                   [account |-> a, checked |-> TRUE, probed |-> ~fresh,
                    ok |-> ok, cached |-> entry,
                    result |-> IF ok /\ connect THEN "client" ELSE "none"]

GetClientCall ==
    /\ \E a \in Accounts, held \in BOOLEAN, probe \in BOOLEAN, connect \in BOOLEAN :
          GetClient(a, held, probe, connect)
    /\ UNCHANGED proxyNow
    /\ UNCHANGED <<workerVars, campaignVars, dialogVars, quietVars, followVars, moreVars>>

ProxyNext ==
    \/ ProxyTick
    \/ GetClientCall

ProxySpec == ProxyInit /\ [][ProxyNext]_vars

\* ============================ AIMessagingService.main_loop: campaign tasks
\* The registry self.active_campaign_tasks maps a campaign id to the task
\* created for it; loopTasks keeps every task ever created, so that two
\* tasks of one campaign can be told apart.

notLoopVars ==
    <<workerVars, campaignVars, dialogVars, quietVars, proxyVars, followVars,
      runnerVars, leadVars, clientVars, queueVars, sessionVars,
      replyPassVars>>

\* start(): self.running = True; await self.main_loop()
LoopInit ==
    /\ loopRunning = TRUE
    /\ loopPc = "top"
    /\ active_campaign_tasks = [c \in Campaigns |-> NoTask]
    /\ loopTasks = <<>>
    /\ ServicesIdle
    /\ RunnerIdle
    /\ LeadIdle
    /\ ClientIdle
    /\ QueueIdle
    /\ SessionIdle
    /\ ReplyPassIdle

\* task.done()
TaskDone(task) == task.state = "done"

\* finished_campaigns: `if task.done(): finished_campaigns.append(campaign_id)`
FinishedCampaigns(registry, tasks) ==
    {c \in Campaigns : registry[c] # NoTask /\ TaskDone(tasks[registry[c]])}

AlreadyRunningNever(campaign_id, registry) == FALSE

\* `if campaign_id in self.active_campaign_tasks: continue`
AlreadyRunning(campaign_id, registry) == registry[campaign_id] # NoTask

\* `for campaign in campaigns`: the registry and the tasks after the
\* campaigns c, c + 1, ... of the fetched rows were gone through
RECURSIVE StartCampaignsFrom(_, _, _, _)
StartCampaignsFrom(c, campaigns, registry, tasks) ==
    IF c > NumCampaigns THEN [registry |-> registry, tasks |-> tasks]
    ELSE IF c \notin campaigns \/ AlreadyRunning(c, registry)
    THEN StartCampaignsFrom(c + 1, campaigns, registry, tasks)
    ELSE StartCampaignsFrom(
             c + 1, campaigns,
             [registry EXCEPT ![c] = Len(tasks) + 1],
             Append(tasks, [campaign |-> c, state |-> "running"]))

\* main_loop, top of an iteration: `while self.running`, the finished tasks
\* are deleted from the registry; then process_message_queue is awaited
LoopCleanUp ==
    /\ loopPc = "top"
    /\ loopRunning
    /\ active_campaign_tasks' =
          [c \in Campaigns |->
              IF c \in FinishedCampaigns(active_campaign_tasks, loopTasks)
              THEN NoTask ELSE active_campaign_tasks[c]]
    /\ loopPc' = "body"
    /\ UNCHANGED <<loopRunning, loopTasks>>
    /\ UNCHANGED notLoopVars

\* main_loop: get_active_campaigns has returned (nothing when an await of
\* the `try` block raised); a task is created for every campaign that is not
\* in the registry; then the loop sleeps
LoopStartCampaigns ==
    /\ loopPc = "body"
    /\ \E campaigns \in SUBSET Campaigns :
          LET after == StartCampaignsFrom(1, campaigns, active_campaign_tasks,
                                          loopTasks)
          IN  /\ Len(after.tasks) <= MaxLoopTasks
              /\ active_campaign_tasks' = after.registry
              /\ loopTasks' = after.tasks
    /\ loopPc' = "sleep"
    /\ UNCHANGED loopRunning
    /\ UNCHANGED notLoopVars

\* asyncio.sleep(60) is over
LoopWake ==
    /\ loopPc = "sleep"
    /\ loopPc' = "top"
    /\ UNCHANGED <<loopRunning, active_campaign_tasks, loopTasks>>
    /\ UNCHANGED notLoopVars

\* process_campaign returns, raises, or is resumed with CancelledError
CampaignTaskEnds(t) ==
    /\ loopTasks[t].state \in {"running", "cancelling"}
    /\ loopTasks' = [loopTasks EXCEPT ![t].state = "done"]
    /\ UNCHANGED <<loopRunning, loopPc, active_campaign_tasks>>
    /\ UNCHANGED notLoopVars

\* shutdown(), entered from start() when main_loop is interrupted at one of
\* its awaits: self.running = False and task.cancel() for the registry
LoopShutdown ==
    /\ loopRunning
    /\ loopPc \in {"body", "sleep"}
    /\ loopRunning' = FALSE
    /\ loopPc' = "stopped"
    /\ loopTasks' =
          [t \in 1..Len(loopTasks) |->
              IF /\ loopTasks[t].state = "running"
                 /\ active_campaign_tasks[loopTasks[t].campaign] = t
              THEN [loopTasks[t] EXCEPT !.state = "cancelling"]
              ELSE loopTasks[t]]
    /\ UNCHANGED active_campaign_tasks
    /\ UNCHANGED notLoopVars

LoopNext ==
    \/ LoopCleanUp
    \/ LoopStartCampaigns
    \/ LoopWake
    \/ \E t \in 1..MaxLoopTasks : t <= Len(loopTasks) /\ CampaignTaskEnds(t)
    \/ LoopShutdown

LoopSpec == LoopInit /\ [][LoopNext]_vars

\* ===================== CampaignRunner: start, stop and the log reader task
\* One campaign; every start creates a process and an asyncio task that
\* reads its output (_read_logs). db.get_campaign and db.save_campaign read
\* and write the campaign's file through aiofiles, so each is an await at
\* which the other coroutines run.

notRunnerVars ==
    <<workerVars, campaignVars, dialogVars, quietVars, proxyVars, followVars,
      loopVars, leadVars, clientVars, queueVars, sessionVars,
      replyPassVars>>

RunnerInit ==
    /\ RunnerIdle
    /\ ServicesIdle
    /\ LoopIdle
    /\ LeadIdle
    /\ ClientIdle
    /\ QueueIdle
    /\ SessionIdle
    /\ ReplyPassIdle

\* process.returncode: 0, or another value (an error, or the signal that
\* ended the process)
ExitCodes == {0, 1}

\* _update_campaign_status_async: the status written for an exit code
StatusForExitCode(exit_code) == IF exit_code = 0 THEN "stopped" ELSE "error"

\* start_campaign up to `campaign.status = RUNNING; await db.save_campaign`;
\* the API calls start and stop one after the other
RunnerStartCampaign ==
    /\ runStart = "idle"
    /\ runStop = "idle"
    /\ Len(runProcs) < MaxStarts
    /\ running_campaigns = NoTask
    /\ runStatus' = "running"
    /\ runStart' = "spawning"
    /\ stopReturned' = FALSE
    /\ UNCHANGED <<running_campaigns, runProcs, runStop>>
    /\ UNCHANGED notRunnerVars

\* start_campaign: the subprocess exists, it is registered and
\* asyncio.create_task(self._read_logs(campaign_id, process)) was called
RunnerProcessCreated ==
    /\ runStart = "spawning"
    /\ runProcs' = Append(runProcs, [state |-> "alive", code |-> 0,
                                      reader |-> "reading"])
    /\ running_campaigns' = Len(runProcs) + 1
    /\ runStart' = "idle"
    /\ UNCHANGED <<runStatus, runStop, stopReturned>>
    /\ UNCHANGED notRunnerVars

\* the process ends, by itself or after terminate() / kill()
RunnerProcessExits(p) ==
    /\ runProcs[p].state = "alive"
    /\ \E exit_code \in ExitCodes :
          runProcs' = [runProcs EXCEPT ![p].state = "exited",
                                       ![p].code = exit_code]
    /\ UNCHANGED <<runStatus, running_campaigns, runStart, runStop, stopReturned>>
    /\ UNCHANGED notRunnerVars

\* _read_logs: readline returned nothing and process.wait() the exit code;
\* the campaign is deleted from running_campaigns; then
\* _update_campaign_status_async awaits db.get_campaign
ReadLogsSeesExit(p) ==
    /\ runProcs[p].reader = "reading"
    /\ runProcs[p].state = "exited"
    /\ running_campaigns' = NoTask
    /\ runProcs' = [runProcs EXCEPT ![p].reader = "update"]
    /\ UNCHANGED <<runStatus, runStart, runStop, stopReturned>>
    /\ UNCHANGED notRunnerVars

\* _update_campaign_status_async: db.get_campaign has returned, the status
\* is set from the exit code and db.save_campaign has written the file
UpdateCampaignStatus(p) ==
    /\ runProcs[p].reader = "update"
    /\ runStatus' = StatusForExitCode(runProcs[p].code)
    /\ runProcs' = [runProcs EXCEPT ![p].reader = "done"]
    /\ UNCHANGED <<running_campaigns, runStart, runStop, stopReturned>>
    /\ UNCHANGED notRunnerVars

\* stop_campaign: db.get_campaign has returned the campaign; without a
\* registered process the status is saved at once, else terminate() is
\* called and process.wait() awaited
RunnerStopCampaign ==
    /\ runStop = "idle"
    /\ runStart = "idle"
    /\ runStatus # "draft"
    /\ runStop' = IF running_campaigns = NoTask THEN "saving" ELSE "waiting"
    /\ UNCHANGED <<runStatus, running_campaigns, runProcs, runStart, stopReturned>>
    /\ UNCHANGED notRunnerVars

\* stop_campaign: the wait is over (the process ended, or both timeouts
\* passed); the campaign is deleted from running_campaigns
RunnerStopWaited ==
    /\ runStop = "waiting"
    /\ running_campaigns' = NoTask
    /\ runStop' = "saving"
    /\ UNCHANGED <<runStatus, runProcs, runStart, stopReturned>>
    /\ UNCHANGED notRunnerVars

\* stop_campaign: campaign.status = STOPPED, db.save_campaign has written
\* the file, return True
RunnerStopSaved ==
    /\ runStop = "saving"
    /\ runStatus' = "stopped"
    /\ runStop' = "idle"
    /\ stopReturned' = TRUE
    /\ UNCHANGED <<running_campaigns, runProcs, runStart>>
    /\ UNCHANGED notRunnerVars

RunnerNext ==
    \/ RunnerStartCampaign
    \/ RunnerProcessCreated
    \/ \E p \in 1..MaxStarts : p <= Len(runProcs) /\ RunnerProcessExits(p)
    \/ \E p \in 1..MaxStarts : p <= Len(runProcs) /\ ReadLogsSeesExit(p)
    \/ \E p \in 1..MaxStarts : p <= Len(runProcs) /\ UpdateCampaignStatus(p)
    \/ RunnerStopCampaign
    \/ RunnerStopWaited
    \/ RunnerStopSaved

RunnerSpec == RunnerInit /\ [][RunnerNext]_vars

\* ================== LeadManager: first messages to the leads of one user
\* Every running campaign of the user gets its own task (main_loop); each
\* task fetches the user's uncontacted leads once and goes through them.
\* Every lead is a different Telegram user.

notLeadVars ==
    <<workerVars, campaignVars, dialogVars, quietVars, proxyVars, followVars,
      loopVars, runnerVars, clientVars, queueVars, sessionVars,
      replyPassVars>>

LeadInit ==
    /\ LeadIdle
    /\ ServicesIdle
    /\ LoopIdle
    /\ RunnerIdle
    /\ ClientIdle
    /\ QueueIdle
    /\ SessionIdle
    /\ ReplyPassIdle

\* get_uncontacted_leads: the user's detected_leads rows with
\* is_contacted = false
RECURSIVE UncontactedLeadsFrom(_)
UncontactedLeadsFrom(l) ==
    IF l > NumLeads THEN <<>>
    ELSE IF is_contacted[l] THEN UncontactedLeadsFrom(l + 1)
    ELSE <<l>> \o UncontactedLeadsFrom(l + 1)

GetUncontactedLeads == UncontactedLeadsFrom(1)

\* check_existing_conversation: a conversation of this campaign with this
\* peer exists
CheckExistingConversation(campaign_id, peer_user_id) ==
    <<campaign_id, peer_user_id>> \in conversations

\* `for lead in leads`: the task goes on with the next lead, or ends
LeadTaskAfter(task) ==
    IF Len(task.leads) <= 1
    THEN [pc |-> "idle", leads |-> <<>>]
    ELSE [pc |-> "lead", leads |-> Tail(task.leads)]

\* main_loop creates the task of a running campaign; process_campaign
\* fetches the leads and returns at once when there are none
LeadTaskStarts(c) ==
    /\ leadTasks[c].pc = "idle"
    /\ leadPasses[c] < MaxLeadPasses
    /\ leadPasses' = [leadPasses EXCEPT ![c] = @ + 1]
    /\ leadTasks' = [leadTasks EXCEPT ![c] =
                        IF GetUncontactedLeads = <<>>
                        THEN [pc |-> "idle", leads |-> <<>>]
                        ELSE [pc |-> "lead", leads |-> GetUncontactedLeads]]
    /\ UNCHANGED <<is_contacted, conversations, firstMessages>>
    /\ UNCHANGED notLeadVars

\* process_campaign and _process_single_lead up to the result of
\* check_existing_conversation
LeadChecked(c) ==
    /\ leadTasks[c].pc = "lead"
    /\ LET lead == Head(leadTasks[c].leads)
       IN  \E outcome \in {"stop", "skip", "channel", "user"} :
           CASE outcome = "stop" ->
                    \* campaign not running any more, or no account
                    /\ leadTasks' = [leadTasks EXCEPT ![c] = [pc |-> "idle", leads |-> <<>>]]
                    /\ UNCHANGED is_contacted
             [] outcome = "skip" ->
                    \* init_account failed, not connected, no user info
                    /\ leadTasks' = [leadTasks EXCEPT ![c] = LeadTaskAfter(@)]
                    /\ UNCHANGED is_contacted
             [] outcome = "channel" ->
                    /\ is_contacted' = [is_contacted EXCEPT ![lead] = TRUE]
                    /\ leadTasks' = [leadTasks EXCEPT ![c] = LeadTaskAfter(@)]
             [] OTHER ->
                    IF CheckExistingConversation(c, lead)
                    THEN /\ is_contacted' = [is_contacted EXCEPT ![lead] = TRUE]
                         /\ leadTasks' = [leadTasks EXCEPT ![c] = LeadTaskAfter(@)]
                    ELSE /\ leadTasks' = [leadTasks EXCEPT ![c].pc = "sending"]
                         /\ UNCHANGED is_contacted
    /\ UNCHANGED <<conversations, leadPasses, firstMessages>>
    /\ UNCHANGED notLeadVars

\* _process_single_lead: generate_first_message and telethon.send_message
\* have returned
LeadSendReturns(c) ==
    /\ leadTasks[c].pc = "sending"
    /\ LET lead == Head(leadTasks[c].leads)
       IN  \E send_result \in {"success", "privacy_premium", "forbidden", "error"} :
           CASE send_result = "success" ->
                    /\ firstMessages' = [firstMessages EXCEPT ![lead] = @ + 1]
                    /\ leadTasks' = [leadTasks EXCEPT ![c].pc = "record"]
                    /\ UNCHANGED is_contacted
             [] send_result \in {"privacy_premium", "forbidden"} ->
                    \* skip_lead_with_reason
                    /\ is_contacted' = [is_contacted EXCEPT ![lead] = TRUE]
                    /\ leadTasks' = [leadTasks EXCEPT ![c] = LeadTaskAfter(@)]
                    /\ UNCHANGED firstMessages
             [] OTHER ->
                    /\ leadTasks' = [leadTasks EXCEPT ![c] = LeadTaskAfter(@)]
                    /\ UNCHANGED <<is_contacted, firstMessages>>
    /\ UNCHANGED <<conversations, leadPasses>>
    /\ UNCHANGED notLeadVars

\* _process_single_lead after the send: create_conversation and
\* mark_lead_contacted have returned
LeadRecorded(c) ==
    /\ leadTasks[c].pc = "record"
    /\ LET lead == Head(leadTasks[c].leads)
       IN  /\ conversations' = conversations \cup {<<c, lead>>}
           /\ is_contacted' = [is_contacted EXCEPT ![lead] = TRUE]
    /\ leadTasks' = [leadTasks EXCEPT ![c] = LeadTaskAfter(@)]
    /\ UNCHANGED <<leadPasses, firstMessages>>
    /\ UNCHANGED notLeadVars

LeadNext ==
    \/ \E c \in UserCampaigns : LeadTaskStarts(c)
    \/ \E c \in UserCampaigns : LeadChecked(c)
    \/ \E c \in UserCampaigns : LeadSendReturns(c)
    \/ \E c \in UserCampaigns : LeadRecorded(c)

LeadSpec == LeadInit /\ [][LeadNext]_vars

\* ================= TelegramHandler.get_client: cached clients and proxies
\* One account with session data.  The worker calls get_client from its one
\* loop, so a call runs from start to end before the next one begins.

notClientVars ==
    <<workerVars, campaignVars, dialogVars, quietVars, proxyVars, followVars,
      loopVars, runnerVars, leadVars, queueVars, sessionVars,
      replyPassVars>>

ClientInit ==
    /\ ClientIdle
    /\ ServicesIdle
    /\ LoopIdle
    /\ RunnerIdle
    /\ LeadIdle
    /\ QueueIdle
    /\ SessionIdle
    /\ ReplyPassIdle

\* account.get('proxy_url') of the dict handed to get_client
AccountProxyUrls == 0..NumProxyUrls

\* what connect() and is_user_authorized() of a new client come to, after
\* the retry
ConnectResults == {"authorized", "not_authorized", "failed"}

ProxyUnchanged(cached_proxy, current_proxy) == FALSE

\* `if cached_proxy != current_proxy`
ProxyChanged(cached_proxy, current_proxy) == cached_proxy # current_proxy

\* get_client, the branch `if account_id in self.clients`: the clients and
\* the registry entry it leaves, and the client it returns (0: it goes on
\* to create a client)
CachedClient(current_proxy, reconnect) ==
    IF clientsEntry = 0
    THEN [clients |-> tgClients, entry |-> 0, returned |-> 0]
    ELSE LET client == tgClients[clientsEntry]
         IN  IF ProxyChanged(client.proxy, current_proxy)
             THEN \* client.disconnect(); del self.clients[account_id]
                  [clients |-> [tgClients EXCEPT ![clientsEntry].connected = FALSE],
                   entry |-> 0, returned |-> 0]
             ELSE IF client.connected
             THEN [clients |-> tgClients, entry |-> clientsEntry,
                   returned |-> clientsEntry]
             ELSE IF reconnect
             THEN \* client.connect() returned
                  [clients |-> [tgClients EXCEPT ![clientsEntry].connected = TRUE],
                   entry |-> clientsEntry, returned |-> clientsEntry]
             ELSE \* client.connect() raised: del self.clients[account_id]
                  [clients |-> tgClients, entry |-> 0, returned |-> 0]

\* TelegramHandler.get_client(account)
GetClientForAccount ==
    /\ Len(tgClients) < MaxClients
    /\ \E current_proxy \in AccountProxyUrls, reconnect \in BOOLEAN,
          proxy_ok \in BOOLEAN, connected \in ConnectResults :
          LET cached == CachedClient(current_proxy, reconnect)
              created == Len(cached.clients) + 1
          IN  IF cached.returned # 0
              THEN /\ tgClients' = cached.clients
                   /\ clientsEntry' = cached.entry
                   /\ lastCall' = [kind |-> "get_client", proxy_url |-> current_proxy,
                                   returned |-> cached.returned]
              ELSE IF (current_proxy # 0 /\ ~proxy_ok) \/ connected = "failed"
              THEN \* _check_proxy or _parse_proxy failed, or connect raised
                   /\ tgClients' = cached.clients
                   /\ clientsEntry' = cached.entry
                   /\ lastCall' = [kind |-> "get_client", proxy_url |-> current_proxy,
                                   returned |-> 0]
              ELSE IF connected = "not_authorized"
              THEN /\ tgClients' = Append(cached.clients,
                                          [proxy |-> current_proxy, connected |-> TRUE,
                                           authorized |-> FALSE])
                   /\ clientsEntry' = cached.entry
                   /\ lastCall' = [kind |-> "get_client", proxy_url |-> current_proxy,
                                   returned |-> 0]
              ELSE \* setattr(client, '_outreach_proxy_url', proxy_url)
                   \* self.clients[account_id] = client
                   /\ tgClients' = Append(cached.clients,
                                          [proxy |-> current_proxy, connected |-> TRUE,
                                           authorized |-> TRUE])
                   /\ clientsEntry' = created
                   /\ lastCall' = [kind |-> "get_client", proxy_url |-> current_proxy,
                                   returned |-> created]
    /\ UNCHANGED notClientVars

\* the connection of a client is lost between two calls
ClientConnectionLost(i) ==
    /\ tgClients[i].connected
    /\ tgClients' = [tgClients EXCEPT ![i].connected = FALSE]
    /\ lastCall' = NoCall
    /\ UNCHANGED clientsEntry
    /\ UNCHANGED notClientVars

ClientNext ==
    \/ GetClientForAccount
    \/ \E i \in 1..MaxClients : i <= Len(tgClients) /\ ClientConnectionLost(i)

ClientSpec == ClientInit /\ [][ClientNext]_vars

\* ====================== ManualMessagingManager: the manual message queue
\* process_queue fetches the pending rows and hands each one to
\* _process_single_message.

notQueueVars ==
    <<workerVars, campaignVars, dialogVars, quietVars, proxyVars, followVars,
      loopVars, runnerVars, leadVars, clientVars, sessionVars,
      replyPassVars>>

QueueInit ==
    /\ QueueIdle
    /\ ServicesIdle
    /\ LoopIdle
    /\ RunnerIdle
    /\ LeadIdle
    /\ ClientIdle
    /\ SessionIdle
    /\ ReplyPassIdle

\* TelethonManager.send_message returns one of these strings ("error" also
\* when the client is not initialised)
TransportSendResults ==
    {"success", "privacy_premium", "flood_wait", "peer_flood", "forbidden",
     "banned", "error"}

\* `if success:` on the value send_message returned: a str is true unless
\* it is empty
IsTrue(value) == value # ""

\* the UI inserts a row with status pending
QueueInsert(m) ==
    /\ message_queue[m] = "none"
    /\ message_queue' = [message_queue EXCEPT ![m] = "pending"]
    /\ UNCHANGED <<queueSendResult, queueAppended>>
    /\ UNCHANGED notQueueVars

\* _process_single_message: the row is marked processing
QueueMarkProcessing(m) ==
    /\ message_queue[m] = "pending"
    /\ message_queue' = [message_queue EXCEPT ![m] = "processing"]
    /\ UNCHANGED <<queueSendResult, queueAppended>>
    /\ UNCHANGED notQueueVars

\* _process_single_message after the mark: the account is read and
\* initialised (an exception when that fails), send_message is awaited and
\* its value tested with `if success:`
QueueProcessSingleMessage(m) ==
    /\ message_queue[m] = "processing"
    /\ \E ready \in BOOLEAN, result \in TransportSendResults :
          IF ~ready
          THEN \* account not found, or init_account failed
               /\ message_queue' = [message_queue EXCEPT ![m] = "failed"]
               /\ UNCHANGED <<queueSendResult, queueAppended>>
          ELSE /\ queueSendResult' = [queueSendResult EXCEPT ![m] = result]
               /\ IF IsTrue(result)
                  THEN /\ message_queue' = [message_queue EXCEPT ![m] = "sent"]
                       /\ queueAppended' = queueAppended \cup {m}
                  ELSE \* raise Exception("Telethon send_message returned False")
                       /\ message_queue' = [message_queue EXCEPT ![m] = "failed"]
                       /\ UNCHANGED queueAppended
    /\ UNCHANGED notQueueVars

QueueNext ==
    \/ \E m \in QueueIds : QueueInsert(m)
    \/ \E m \in QueueIds : QueueMarkProcessing(m)
    \/ \E m \in QueueIds : QueueProcessSingleMessage(m)

QueueSpec == QueueInit /\ [][QueueNext]_vars

\* ================= poll_client and handle_chat_session (To add/main.py)
\* One private chat of one account. The main loop polls the account again
\* and again; a poll that finds unread messages in the chat runs one chat
\* session. Message ids are the positions in chatMessages.

notSessionVars ==
    <<workerVars, campaignVars, dialogVars, quietVars, proxyVars, followVars,
      loopVars, runnerVars, leadVars, clientVars, queueVars, replyPassVars>>

\* the chat before the first poll: empty, or holding the first message the
\* account sent
SessionInit ==
    /\ chatMessages \in {<<>>, <<"out">>}
    /\ read_inbox_max_id = 0
    /\ sessConnected = TRUE
    /\ sessPc = "idle"
    /\ unread_hint = 0
    /\ batch = <<>>
    /\ last_confirmed_id = 0
    /\ userProcessed = FALSE
    /\ pollPass = 0
    /\ processedBatches = <<>>
    /\ ServicesIdle
    /\ LoopIdle
    /\ RunnerIdle
    /\ LeadIdle
    /\ ClientIdle
    /\ QueueIdle
    /\ ReplyPassIdle

\* what the peer can send: a text message, or one without text
PeerMessageKinds == {"in", "media"}

\* dialog.unread_count: inbound messages above the read marker
UnreadCount(msgs, read_max) ==
    Cardinality({i \in DOMAIN msgs : msgs[i] # "out" /\ i > read_max})

\* client.get_messages(chat_id, limit=...): the ids of the latest messages,
\* newest first
GetMessages(msgs, limit) ==
    [k \in 1..Min(limit, Len(msgs)) |-> Len(msgs) - k + 1]

\* res.reverse()
Reverse(seq) == [k \in 1..Len(seq) |-> seq[Len(seq) - k + 1]]

\* _has_outgoing_before
HasOutgoingBefore(msgs) == \E i \in DOMAIN msgs : msgs[i] = "out"

\* take = max(1, min(unread_hint or 0, 20)) or 10
Take(unread) == Max(1, Min(unread, 20))

\* _collect_incoming_slice: the inbound text messages among the latest
\* max_take messages, oldest first
CollectIncomingSlice(msgs, max_take) ==
    LET NotOutWithText(id) == msgs[id] = "in"
    IN  Reverse(SelectSeq(GetMessages(msgs, max_take), NotOutWithText))

\* _collect_new_incoming_since: the same above last_msg_id
CollectNewIncomingSince(msgs, last_msg_id, max_take) ==
    LET NewNotOutWithText(id) == id > last_msg_id /\ msgs[id] = "in"
    IN  Reverse(SelectSeq(GetMessages(msgs, max_take), NewNotOutWithText))

\* observer: a batch _reply_once_for_batch has dealt with and returned from
ProcessedBatch(ids, replied) ==
    [ids |-> ids, replied |-> replied, pass |-> pollPass]

\* the peer writes into the chat
PeerSends ==
    /\ Len(chatMessages) < MaxChatMessages
    /\ \E kind \in PeerMessageKinds :
          chatMessages' = Append(chatMessages, kind)
    /\ UNCHANGED <<read_inbox_max_id, sessConnected, sessPc, unread_hint,
                   batch, last_confirmed_id, userProcessed, pollPass,
                   processedBatches>>
    /\ UNCHANGED notSessionVars

\* poll_client: get_dialogs and the checks that lead to handle_chat_session
PollClient ==
    /\ sessPc = "idle"
    /\ pollPass < MaxPolls
    /\ sessConnected
    /\ ~userProcessed
    /\ UnreadCount(chatMessages, read_inbox_max_id) > 0
    /\ unread_hint' = UnreadCount(chatMessages, read_inbox_max_id)
    /\ pollPass' = pollPass + 1
    /\ sessPc' = "session"
    /\ UNCHANGED <<chatMessages, read_inbox_max_id, sessConnected, batch,
                   last_confirmed_id, userProcessed, processedBatches>>
    /\ UNCHANGED notSessionVars

\* handle_chat_session up to the first batch
HandleChatSession ==
    /\ sessPc = "session"
    /\ IF ~sessConnected \/ ~HasOutgoingBefore(chatMessages)
       THEN \* DisconnectedError, or no previous outgoing
            /\ sessPc' = "idle"
            /\ batch' = <<>>
       ELSE LET incoming ==
                    CollectIncomingSlice(chatMessages, Take(unread_hint))
            IN  /\ batch' = incoming
                /\ sessPc' = IF incoming = <<>> THEN "idle" ELSE "read"
    /\ UNCHANGED <<chatMessages, read_inbox_max_id, sessConnected,
                   unread_hint, last_confirmed_id, userProcessed, pollPass,
                   processedBatches>>
    /\ UNCHANGED notSessionVars

\* results of send_read_acknowledge
AckResults == {"ok", "failed", "frozen"}

\* _reply_once_for_batch: the delay before reading and
\* send_read_acknowledge(uid, max_id=batch[-1].id)
ReplyReadAcknowledge ==
    /\ sessPc = "read"
    /\ \E ack \in AckResults :
          CASE ack = "ok" ->
                   /\ read_inbox_max_id' =
                          Max(read_inbox_max_id, batch[Len(batch)])
                   /\ sessPc' = "reply"
                   /\ UNCHANGED <<batch, processedBatches>>
            [] ack = "failed" ->
                   \* logged, the reply goes on
                   /\ sessPc' = "reply"
                   /\ UNCHANGED <<read_inbox_max_id, batch, processedBatches>>
            [] ack = "frozen" ->
                   \* FrozenMethodInvalidError leaves the session and the poll
                   /\ sessPc' = "idle"
                   /\ batch' = <<>>
                   /\ UNCHANGED <<read_inbox_max_id, processedBatches>>
    /\ UNCHANGED <<chatMessages, sessConnected, unread_hint,
                   last_confirmed_id, userProcessed, pollPass>>
    /\ UNCHANGED notSessionVars

\* what the rest of _reply_once_for_batch comes to: no reply text, a send
\* that failed, a reply sent, a reply sent that holds a trigger phrase, or
\* FrozenMethodInvalidError on the send
ReplyOutcomes == {"no_reply", "send_failed", "sent", "sent_trigger", "frozen"}

\* _reply_once_for_batch after the acknowledgement, and what
\* handle_chat_session does with its result
ReplyOnceForBatch ==
    /\ sessPc = "reply"
    /\ \E outcome \in ReplyOutcomes :
        LET sent == outcome \in {"sent", "sent_trigger"}
            was_processed == outcome = "sent_trigger"
        IN  /\ sent => Len(chatMessages) < MaxChatMessages
            /\ chatMessages' =
                   IF sent THEN Append(chatMessages, "out") ELSE chatMessages
            /\ processedBatches' =
                   IF outcome = "frozen" THEN processedBatches
                   ELSE Append(processedBatches, ProcessedBatch(batch, sent))
            /\ userProcessed' = was_processed
            /\ batch' = <<>>
            /\ IF was_processed \/ outcome = "frozen"
               THEN /\ sessPc' = "idle"
                    /\ UNCHANGED last_confirmed_id
               ELSE /\ sessPc' = "window"
                    /\ last_confirmed_id' = batch[Len(batch)]
    /\ UNCHANGED <<read_inbox_max_id, sessConnected, unread_hint, pollPass>>
    /\ UNCHANGED notSessionVars

\* one turn of `while True`: the wait window and the look for new messages
DialogWindowElapses ==
    /\ sessPc = "window"
    /\ \E get_messages_failed \in BOOLEAN :
          LET fresh ==
                  IF get_messages_failed THEN <<>>
                  ELSE CollectNewIncomingSince(chatMessages,
                                               last_confirmed_id, 50)
          IN  IF ~sessConnected \/ fresh = <<>>
              THEN /\ sessPc' = "idle"
                   /\ batch' = <<>>
              ELSE /\ sessPc' = "read"
                   /\ batch' = fresh
    /\ UNCHANGED <<chatMessages, read_inbox_max_id, sessConnected,
                   unread_hint, last_confirmed_id, userProcessed, pollPass,
                   processedBatches>>
    /\ UNCHANGED notSessionVars

\* the connection of the client drops
SessionConnectionLost ==
    /\ sessConnected
    /\ sessPc # "idle"
    /\ sessConnected' = FALSE
    /\ UNCHANGED <<chatMessages, read_inbox_max_id, sessPc, unread_hint,
                   batch, last_confirmed_id, userProcessed, pollPass,
                   processedBatches>>
    /\ UNCHANGED notSessionVars

\* the main loop connects the client again before the next poll
SessionClientStart ==
    /\ ~sessConnected
    /\ sessPc = "idle"
    /\ sessConnected' = TRUE
    /\ UNCHANGED <<chatMessages, read_inbox_max_id, sessPc, unread_hint,
                   batch, last_confirmed_id, userProcessed, pollPass,
                   processedBatches>>
    /\ UNCHANGED notSessionVars

SessionNext ==
    \/ PeerSends
    \/ PollClient
    \/ HandleChatSession
    \/ ReplyReadAcknowledge
    \/ ReplyOnceForBatch
    \/ DialogWindowElapses
    \/ SessionConnectionLost
    \/ SessionClientStart

SessionSpec == SessionInit /\ [][SessionNext]_vars

\* ============ _check_for_replies, one chat with several new messages
\* (outreach_worker.py). The body of `for chat in chats` for one chat whose
\* account connects; dates and utcnow() are ticks of rpClock, which every
\* arrival and every add_message moves forward.

notReplyPassVars ==
    <<workerVars, campaignVars, dialogVars, quietVars, proxyVars, followVars,
      loopVars, runnerVars, leadVars, clientVars, queueVars, sessionVars>>

\* a message of the chat; `window` is the dialog window it arrived in and
\* `reply` the reply that answered it (0: none), both observers
ChatMessage(kind, date, window) ==
    [kind |-> kind, date |-> date, window |-> window, reply |-> 0]

\* the chat after the initial message was sent and stored
ReplyPassInit ==
    /\ rpMessages = <<ChatMessage("out", 1, 0)>>
    /\ rpClock = 1
    /\ rpLastMessageAt = 1
    /\ rpPc = "idle"
    /\ new_messages = <<>>
    /\ rpLeadDetected = FALSE
    /\ rpWindows = 0
    /\ rpReplies = 0
    /\ ServicesIdle
    /\ LoopIdle
    /\ RunnerIdle
    /\ LeadIdle
    /\ ClientIdle
    /\ QueueIdle
    /\ SessionIdle

\* TelegramManager.get_new_messages: the inbound messages with text among
\* the latest 20, oldest first
GetNewMessages(msgs) ==
    LET NotOutWithText(id) == msgs[id].kind = "in"
    IN  Reverse(SelectSeq(GetMessages(msgs, 20), NotOutWithText))

\* the filter on last_message_at: messages dated at or before it are dropped
NewSince(msgs, ids, last_seen_dt) ==
    LET IsNew(id) == ~(msgs[id].date <= last_seen_dt)
    IN  SelectSeq(ids, IsNew)

\* the peer writes into the chat
ReplyPassPeerSends ==
    /\ Len(rpMessages) < MaxPassMessages
    /\ rpClock' = rpClock + 1
    /\ rpMessages' =
           Append(rpMessages,
                  ChatMessage("in", rpClock + 1,
                              IF rpPc = "window" THEN rpWindows ELSE 0))
    /\ UNCHANGED <<rpLastMessageAt, rpPc, new_messages, rpLeadDetected,
                   rpWindows, rpReplies>>
    /\ UNCHANGED notReplyPassVars

\* the chat's turn in `for chat in chats` up to `for msg in new_messages`
ReplyPassCheckChat ==
    /\ rpPc = "idle"
    /\ ~rpLeadDetected
    /\ LET found == NewSince(rpMessages, GetNewMessages(rpMessages),
                             rpLastMessageAt)
       IN  /\ found # <<>>
           /\ new_messages' = found
           /\ rpPc' = "message"
    /\ UNCHANGED <<rpMessages, rpClock, rpLastMessageAt, rpLeadDetected,
                   rpWindows, rpReplies>>
    /\ UNCHANGED notReplyPassVars

\* the end of one turn of `for msg in new_messages`: the target is patched
\* and the loop goes to the next message
NextNewMessage ==
    /\ new_messages' = Tail(new_messages)
    /\ rpPc' = IF Tail(new_messages) = <<>> THEN "idle" ELSE "message"

\* one turn of `for msg in new_messages` up to the dialog window: the
\* message is stored, and a reply is generated for it and sent, or not
ProcessNewMessage ==
    /\ rpPc = "message"
    /\ \E replied \in BOOLEAN :
        LET msg == Head(new_messages)
        IN  IF replied /\ Len(rpMessages) < MaxPassMessages
            THEN \* add_message 'them', send_message, add_message 'me'
                 /\ rpClock' = rpClock + 2
                 /\ rpLastMessageAt' = rpClock + 2
                 /\ rpReplies' = rpReplies + 1
                 /\ rpMessages' =
                        Append([rpMessages EXCEPT ![msg].reply = rpReplies + 1],
                               ChatMessage("out", rpClock + 2, 0))
                 /\ rpWindows' = rpWindows + 1
                 /\ rpPc' = "window"
                 /\ UNCHANGED new_messages
            ELSE \* add_message 'them' only
                 /\ rpClock' = rpClock + 1
                 /\ rpLastMessageAt' = rpClock + 1
                 /\ NextNewMessage
                 /\ UNCHANGED <<rpMessages, rpWindows, rpReplies>>
    /\ UNCHANGED rpLeadDetected
    /\ UNCHANGED notReplyPassVars

\* the dialog window is over: _handle_lead_detection, then the next message
\* of the list
ReplyPassWindowElapses ==
    /\ rpPc = "window"
    /\ \E lead_detected \in BOOLEAN :
          IF lead_detected
          THEN \* break
               /\ rpLeadDetected' = TRUE
               /\ new_messages' = <<>>
               /\ rpPc' = "idle"
          ELSE /\ NextNewMessage
               /\ UNCHANGED rpLeadDetected
    /\ UNCHANGED <<rpMessages, rpClock, rpLastMessageAt, rpWindows, rpReplies>>
    /\ UNCHANGED notReplyPassVars

ReplyPassNext ==
    \/ ReplyPassPeerSends
    \/ ReplyPassCheckChat
    \/ ProcessNewMessage
    \/ ReplyPassWindowElapses

ReplyPassSpec == ReplyPassInit /\ [][ReplyPassNext]_vars

\* ------------------------------------------------------ claims (worker)
\* C1: for every identity messages_sent_today never exceeds the daily limit,
\* and no send of any kind (initial, reply, follow-up, queued manual message)
\* is attempted through an identity whose counter for today is at the limit.
C1_DailyLimitNeverExceeded ==
    /\ \A a \in Accounts : accounts[a].messages_sent_today <= DailyLimit
    /\ lastSend.kind # "none" => lastSend.before < DailyLimit

\* C2: identity selection never returns an identity whose cooldown_until lies
\* in the future, also for later targets of the pass that set the cooldown.
C2_SelectionSkipsCooldown ==
    lastSelect.account # NoAccount => ~lastSelect.cooled

C11_LeadHandleNeverRecontacted ==
    /\ [](\A t \in Targets :
             chats[t].lead_status # "none"
             => \E r \in processedClients :
                   Handle(r.target_username) = Handle(chats[t].target_username))
    /\ [][(lastSend'.kind = "initial" /\ lastSend'.error = <<>>)
           => ~lastSend'.concluded]_vars

\* C12: an identity that has made daily_limit successful sends today (its
\* counter stood at the limit minus one before the last of them) is not
\* selected again on that day by any campaign task of its user.
C12_NoSelectionAfterLimitSends ==
    [][\A c \in Campaigns :
          (ctask[c].pc = "select" /\ ctask'[c].pc = "sending")
          => sentToday[ctask'[c].account]
                < EffectiveLimit(ctask'[c].account)]_vars

\* C13: when a send fails with the abuse-flood signal, which carries no wait
\* time, cooldown_until of the identity becomes now + the cooldown of the
\* campaign and the status of the identity stays active.
C13_PeerFloodKeepsStatusActive ==
    [][lastSend'.error = PeerFloodText
       => ( /\ accounts'[lastSend'.account].cooldown_until = now + CooldownTicks
            /\ accounts'[lastSend'.account].status = "active" )]_vars

\* C14: when a send fails with a rate-limit signal that carries a wait of N
\* seconds, cooldown_until of the identity becomes exactly now + N.
C14_FloodWaitSetsExactCooldown ==
    [][\A n \in 1..MaxFloodWait :
          lastSend'.error = FloodWaitText(n)
          => accounts'[lastSend'.account].cooldown_until = now + n]_vars

\* C15: a rate-limit signal received while sending to a target does not put
\* the target into the failed state; the target stays pending for a later send.
C15_FloodWaitDoesNotFailTarget ==
    [][\A n \in 1..MaxFloodWait :
          (lastSend'.kind = "initial" /\ lastSend'.error = FloodWaitText(n))
          => targets'[lastSend'.target].status = "pending"]_vars

\* C16: a failure to obtain a transport session and an unclassified send
\* error leave the identity as it was (status, cooldown_until, counters), and
\* the target stays pending for the next iteration.
C16_TransientErrorHasNoPenalty ==
    [][/\ (lastClient'.account # NoAccount /\ lastClient'.result = "none")
          => /\ accounts'[lastClient'.account] = accounts[lastClient'.account]
             /\ lastClient'.target # 0
                    => targets'[lastClient'.target] = targets[lastClient'.target]
       /\ lastSend'.error = OtherErrorText
          => /\ accounts'[lastSend'.account] = accounts[lastSend'.account]
             /\ lastSend'.kind = "initial"
                    => targets'[lastSend'.target].status = "pending"]_vars

\* The signals of send_message that tell the peer cannot be reached
UnreachableTexts == {PrivacyText, MutualText, ForbiddenText}

\* C17: an unreachable-peer signal (forbidden, privacy restricted, not mutual
\* contact) on an initial send fails the target with the signal as its error
\* reason and leaves the sending identity as it was; a target failed that way
\* never becomes pending again and is never sent to again.
C17_UnreachablePeerFailsOnlyTarget ==
    [][/\ (lastSend'.kind = "initial" /\ lastSend'.error \in UnreachableTexts)
          => /\ targets'[lastSend'.target].status = "failed"
             /\ targets'[lastSend'.target].error = lastSend'.error
             /\ accounts'[lastSend'.account] = accounts[lastSend'.account]
       /\ \A t \in Targets :
             (targets[t].status = "failed" /\ targets[t].error \in UnreachableTexts)
             => /\ targets'[t].status = "failed"
                /\ targets'[t].error = targets[t].error
                /\ ~(lastSend'.kind = "initial" /\ lastSend'.target = t)]_vars

\* A later pass starts over the campaign of a target that failed on an
\* unreachable peer: the target is not among the pending ones, the identity
\* that tried it is active, without a cooldown, and in the list of the pass.
C17_Witness ==
    \E t \in Targets :
        /\ targets[t].status = "failed"
        /\ targets[t].error \in UnreachableTexts
        /\ targets[t].account # NoAccount
        /\ accounts[targets[t].account].status = "active"
        /\ accounts[targets[t].account].cooldown_until = None
        /\ wpc = "initial"
        /\ campaign = TargetCampaign(t)
        /\ accountIndex = 0
        /\ lastSend = NoSend
        /\ passTargets = GetPendingTargets(campaign)
        /\ \E i \in 1..Len(passAccounts) : passAccounts[i].id = targets[t].account

\* C18: an exception while one target, conversation or queued message is
\* processed leaves the others of the pass to be processed: the loop that was
\* running goes on with its next element.
C18_FailureDoesNotHaltOthers ==
    [][(lastClient'.account # NoAccount /\ lastClient'.result = "raises")
       => /\ wpc' = wpc
          /\ wpc = "initial" => passTargets' = Tail(passTargets)
          /\ wpc = "replies" => passChats' = Tail(passChats)
          /\ wpc = "manual" => manualBatch' = Tail(manualBatch)]_vars

\* Observer: the turn of the last step is one whose generation call failed
\* while the campaign row enables the fallback.
FallbackTurn(turn) ==
    /\ turn.target # 0
    /\ turn.generated = NoText
    /\ turn.row.use_fallback_on_ai_fail

C29_NoIdentityMeansCycleSkipped ==
    [][( /\ wpc = "initial"
         /\ passTargets # <<>>
         /\ passTargets' # passTargets
         /\ ~(IgnoreBotUsernames /\ IsBotUsername(targets[Head(passTargets)].username))
         /\ ~IsProcessedTarget(targets[Head(passTargets)].username, passProcessed)
         /\ \A i \in 1..Len(passAccounts) :
               \/ IsAccountInCooldown(passAccounts[i])
               \/ GetMessagesSentToday(passAccounts[i]) >= DailyLimit )
       => /\ targets' = targets
          /\ accounts' = accounts
          /\ messages' = messages
          /\ chats' = chats
          /\ sentLog' = sentLog
          /\ lastSelect' = NoSelect
          /\ lastSend' = NoSend
          /\ passTargets' = <<>>
          /\ wpc' = "initial"]_vars

\* The loop has ended on `break` with a pending target of the campaign left
\* over: no account of the pass qualifies and nothing was selected or sent.
C29_Witness ==
    /\ wpc = "initial"
    /\ passTargets = <<>>
    /\ passAccounts # <<>>
    /\ lastSelect = NoSelect
    /\ lastSend = NoSend
    /\ FindAvailable(passAccounts, accountIndex, Len(passAccounts)).pos = 0
    /\ \E t \in Targets :
          /\ TargetCampaign(t) = campaign
          /\ targets[t].status = "pending"
          /\ targets[t].error = <<>>
          /\ ~(IgnoreBotUsernames /\ IsBotUsername(targets[t].username))
          /\ ~IsProcessedTarget(targets[t].username, passProcessed)

C6_OneSendPerIdentity ==
    \A c1, c2 \in Campaigns :
        ( /\ c1 # c2
          /\ ctask[c1].pc = "sending"
          /\ ctask[c2].pc = "sending" )
        => ctask[c1].account # ctask[c2].account

\* C7: under read-then-write races of concurrent tasks the number of messages
\* an identity sends in one day never exceeds its daily limit by more than one.
C7_LimitExceededByAtMostOne ==
    \A a \in Accounts : sentToday[a] <= EffectiveLimit(a) + 1

\* C8: every successful network send increments messages_sent_today of the
\* sending identity exactly once, also when the task is cancelled after its
\* send: once no task is between a send and its bookkeeping, the counter of
\* each identity equals the number of its successful sends.
C8_EverySendCountedOnce ==
    (\A c \in Campaigns : ctask[c].pc \in {"idle", "select", "done", "cancelled"})
    => \A a \in Accounts : tgAccounts[a].messages_sent_today = sentToday[a]

C26_HighestScoreSelected ==
    [][\A c \in Campaigns :
          (/\ ctask[c].pc = "select"
           /\ ctask'[c].pc = "sending"
           /\ InSeq(ctask'[c].account, usedOrder))
          => LET a == ctask'[c].account
             IN  ~\E b \in Accounts :
                    /\ InSeq(b, GetAccountsForUser)
                    /\ IsSelectable(b)
                    /\ tgAccounts[b].total_messages_sent
                          = tgAccounts[a].total_messages_sent
                    /\ tgAccounts[b].reliability_score
                          > tgAccounts[a].reliability_score]_vars

\* ------------------------------------------------------- claims (dialog)
\* C3: once the conversation carries a lead decision (status hot_lead or a
\* hot-lead row), no later handler or task sends an automatic reply in it or
\* calls the reply composer for it.
C3_NoAutomationAfterLeadDecision ==
    [][(hotLead \/ convStatus = "hot_lead")
       => ( /\ replies' = replies
            /\ \A t \in Inbound :
                  rtasks'[t].pc = "compose" => rtasks[t].pc = "compose" )]_vars

\* C4: at every moment at most one delayed-response task of the conversation
\* is in flight, and the registry entry refers to that task.
C4_OneResponseTaskPerConversation ==
    /\ Cardinality(LiveTasks) <= 1
    /\ pending # NoTask => pending \in LiveTasks
    /\ \A t \in LiveTasks : pending = t

\* C5: when every further inbound message arrived before a delayed reply had
\* fired, the pending reply is cancelled and at most one reply is sent for
\* the coalesced messages.
C5_OneReplyForCoalescedMessages ==
    ~arrivedAfterFire => replies <= 1

\* C20: when the reply-generation call has failed and no fallback has been
\* enabled (the campaign service offers no setting for one), no message is
\* sent for that turn.
C20_NoSendWhenGenerationFails ==
    [][\A t \in Inbound :
          (rtasks[t].pc = "respond" /\ rtasks[t].fallback /\ rtasks'[t].pc = "save")
          => replies' = replies]_vars

\* C33: when the stored history has reached the length limit (12 messages)
\* or the peer's last two messages are identical (with at least 3 peer
\* messages), the delayed response sets the status to stopped, sends no
\* reply for the batch and creates no hot-lead record or lead status.
C33_HeuristicsStopWithoutReplyOrLead ==
    [][\A t \in Inbound :
         LET peer == SelectSeq(history, LAMBDA msg : msg.role = "user")
             n == Len(peer)
         IN  (/\ rtasks[t].pc = "sleep"
              /\ rtasks'[t].pc # "sleep"
              /\ rtasks'[t].pc # "cancelling"
              /\ \/ Len(history) >= 12
                 \/ n >= 3 /\ peer[n].content = peer[n - 1].content)
             => /\ convStatus' = "stopped"
                /\ rtasks'[t].pc = "finished"
                /\ replies' = replies
                /\ hotLead' = hotLead
                /\ history' = history]_vars

\* a delayed response woke on a history of 12 messages, stopped the
\* conversation and ended; nothing was sent and no hot lead exists
C33_Witness ==
    /\ convStatus = "stopped"
    /\ Len(history) = 12
    /\ \E t \in Inbound : rtasks[t].pc = "finished" /\ rtasks[t].fired
    /\ \A t \in Inbound : rtasks[t].pc \in {"none", "finished"}
    /\ \A m \in Inbound : handlers[m].pc \in {"none", "done"}
    /\ arrivedStopped = {}
    /\ replies = 0
    /\ ~hotLead

\* C34: once the stored status is stopped, an inbound message that arrives
\* afterwards never causes generate_response to be called, a hot lead to be
\* handled or a reply to be sent.
C34_StoppedIsTerminal ==
    \A m \in arrivedStopped :
        rtasks[m].pc \notin {"compose", "hot", "respond", "save"}

\* --------------------------------------------- claims (campaign tasks)
\* C35: at any time a campaign has at most one task that has not finished;
\* main_loop creates a task for a campaign only when the registry holds no
\* task for it, and the registry gave up the previous task only after that
\* task was done.
C35_OneTaskPerCampaign ==
    [][\A c \in Campaigns :
         LET live(tasks) == {t \in 1..Len(tasks) :
                               tasks[t].campaign = c /\ tasks[t].state # "done"}
             created == {t \in 1..Len(loopTasks') :
                            t > Len(loopTasks) /\ loopTasks'[t].campaign = c}
         IN  /\ Cardinality(live(loopTasks')) <= 1
             /\ created # {} =>
                   /\ Cardinality(created) = 1
                   /\ active_campaign_tasks[c] = NoTask
                   /\ live(loopTasks) = {}
                   /\ active_campaign_tasks'[c] \in created]_vars

\* a campaign whose first task finished was started a second time
C35_Witness ==
    \E c \in Campaigns :
        \E t1, t2 \in 1..Len(loopTasks) :
            /\ t1 < t2
            /\ loopTasks[t1].campaign = c
            /\ loopTasks[t2].campaign = c
            /\ loopTasks[t1].state = "done"
            /\ loopTasks[t2].state = "running"
            /\ active_campaign_tasks[c] = t2

\* --------------------------------------------- claims (campaign runner)
\* C36: after stop_campaign has returned True, and until start_campaign is
\* called again, the campaign is absent from running_campaigns and its
\* stored status is STOPPED, whatever the log reader task does.
C36_StoppedStaysStopped ==
    stopReturned => (running_campaigns = NoTask /\ runStatus = "stopped")

\* ------------------------------------------------- claims (first messages)
\* C38: every detected lead receives a first message at most once, over all
\* passes and all campaign tasks that work on the user's uncontacted leads.
C38_FirstMessageAtMostOnce == \A l \in Leads : firstMessages[l] <= 1

\* ------------------------------------------------ claims (cached clients)
\* C39: a client that get_client returns was created with the proxy_url the
\* account carries in this call, is connected and is the registered one; a
\* registered client created with another proxy_url is disconnected, taken
\* out of the registry and not returned, and no client that left the
\* registry is ever returned; a client enters the registry only when it is
\* new, connected and authorized.
C39_ClientMatchesCurrentProxy ==
    [][lastCall'.kind = "get_client" =>
         LET call == lastCall'
             old == clientsEntry
         IN  /\ call.returned # 0 =>
                   /\ tgClients'[call.returned].proxy = call.proxy_url
                   /\ tgClients'[call.returned].connected
                   /\ clientsEntry' = call.returned
                   /\ call.returned = old \/ call.returned > Len(tgClients)
             /\ (old # 0 /\ tgClients[old].proxy # call.proxy_url) =>
                   /\ clientsEntry' # old
                   /\ call.returned # old
                   /\ ~tgClients'[old].connected
             /\ (clientsEntry' # old /\ clientsEntry' # 0) =>
                   /\ clientsEntry' > Len(tgClients)
                   /\ tgClients'[clientsEntry'].connected
                   /\ tgClients'[clientsEntry'].authorized]_vars

\* the account's proxy_url was changed while a connected client was cached:
\* the call dropped that client and returned a new one on the new proxy
C39_Witness ==
    /\ lastCall.kind = "get_client"
    /\ lastCall.returned = 2
    /\ clientsEntry = 2
    /\ tgClients[1].authorized
    /\ tgClients[1].proxy # tgClients[2].proxy
    /\ tgClients[1].proxy # 0
    /\ tgClients[2].proxy # 0
    /\ ~tgClients[1].connected
    /\ tgClients[2].connected

\* ------------------------------------------------ claims (manual queue)
\* C37: a queued manual message has status sent only if the transport send
\* succeeded; after any other send result its status is failed and nothing
\* was appended to the conversation history.
C37_SentOnlyAfterSuccessfulSend ==
    \A m \in QueueIds :
        /\ message_queue[m] = "sent" => queueSendResult[m] = "success"
        /\ queueSendResult[m] \notin {"none", "success"} =>
              /\ message_queue[m] = "failed"
              /\ m \notin queueAppended

\* ------------------------------------------------ claims (chat session)
\* C31: within one conversation the batches of inbound messages that were
\* answered are disjoint and were answered in strictly increasing message
\* order: no inbound message belongs to two answered batches, and so none
\* triggers a reply in more than one batch or poll pass.
C31_BatchesAnsweredInOrderOnce ==
    \A i, j \in DOMAIN processedBatches :
        (i < j /\ processedBatches[i].replied /\ processedBatches[j].replied)
            => LET earlier == processedBatches[i].ids
                   later == processedBatches[j].ids
               IN  earlier[Len(earlier)] < later[1]

\* ------------------------------------------------ claims (dialog window)
\* C32: inbound messages that arrived during one dialog window are answered
\* as one batch: any two of them that were answered were answered by the
\* same reply.
C32_WindowArrivalsAnsweredAsOneBatch ==
    \A a, b \in DOMAIN rpMessages :
        ( /\ rpMessages[a].window # 0
          /\ rpMessages[a].window = rpMessages[b].window
          /\ rpMessages[a].reply # 0
          /\ rpMessages[b].reply # 0 )
            => rpMessages[a].reply = rpMessages[b].reply

\* ------------------------------------------------- claims (quiet hours)
\* C23: for a configuration of well-formed windows, _is_sleep_time is true
\* exactly when some window contains the local time, where a window with
\* start > end contains t iff t >= start or t <= end and any other window
\* contains t iff start <= t <= end; for "21:00-08:00" it is true at 23:00 and
\* at 07:00 and false at 12:00, for "13:00-14:00" true at 13:30 and false at
\* 15:00.
C23_QuietIffSomeWindowContains ==
    LET contains(w, t) ==
            IF w.start > w.end
            THEN t >= w.start * 60 \/ t <= w.end * 60
            ELSE w.start * 60 <= t /\ t <= w.end * 60
        night == <<[start |-> 1260, end |-> 480]>>
        lunch == <<[start |-> 780, end |-> 840]>>
    IN  (isQuiet # "unset"
         /\ \A i \in 1..Len(quietWindows) : quietWindows[i] # BadClockWindow)
        => /\ isQuiet \in {"true", "false"}
           /\ (isQuiet = "true")
                <=> \E i \in 1..Len(quietWindows) :
                       /\ quietWindows[i] # NoWindow
                       /\ contains(quietWindows[i], localTime)
           /\ (quietWindows = night /\ localTime \in {82800, 25200})
                => isQuiet = "true"
           /\ (quietWindows = night /\ localTime = 43200) => isQuiet = "false"
           /\ (quietWindows = lunch /\ localTime = 48600) => isQuiet = "true"
           /\ (quietWindows = lunch /\ localTime = 54000) => isQuiet = "false"

\* "21:00-08:00", preceded by a text that is no window, was found quiet at
\* 07:00.
C23_Witness ==
    /\ quietWindows = <<NoWindow, [start |-> 1260, end |-> 480]>>
    /\ quietPeriods[2] = <<"2", "1", ":", "0", "0", "-", "0", "8", ":", "0", "0">>
    /\ localTime = 25200
    /\ isQuiet = "true"
\* ------------------------------------------------- claims (proxy health)
\* C27: in every get_client call that checks the proxy of the account, a
\* cached result younger than the TTL is reused without a probe and the cache
\* is left as it is; without an entry, or with one as old as the TTL or
\* older, a probe is made and its result and time replace the entry; and
\* when the check fails get_client returns no client and the account has no
\* cached client.
C27_ProxyResultReusedWithinTtl ==
    [][(lastGetClient'.account # NoAccount /\ lastGetClient'.checked)
       => LET a == lastGetClient'.account
              url == ProxyUrl(a)
              entry == proxy_health_cache[url]
              young == entry.checked_at # None
                       /\ proxyNow - entry.checked_at < ProxyTtl
          IN  /\ young => /\ ~lastGetClient'.probed
                          /\ lastGetClient'.ok = entry.ok
                          /\ proxy_health_cache' = proxy_health_cache
              /\ ~young => /\ lastGetClient'.probed
                           /\ proxy_health_cache'[url] =
                                 [ok |-> lastGetClient'.ok,
                                  checked_at |-> proxyNow]
              /\ ~lastGetClient'.ok => /\ lastGetClient'.result = "none"
                                       /\ a \notin handlerClients']_vars

\* An entry that said ok has reached the TTL, and the probe that replaced it
\* failed: get_client returned nothing and no account holds a client.
C27_Witness ==
    /\ lastGetClient.checked
    /\ lastGetClient.probed
    /\ lastGetClient.cached.ok
    /\ proxyNow - lastGetClient.cached.checked_at = ProxyTtl
    /\ ~lastGetClient.ok
    /\ proxy_health_cache[ProxyUrl(lastGetClient.account)]
          = [ok |-> FALSE, checked_at |-> proxyNow]
    /\ lastGetClient.result = "none"
    /\ handlerClients = {}

C24_NoAutomaticSendWhileQuiet ==
    followLast.kind # "none" => ~followLast.quiet

\* C30: a follow-up goes out only if, at the time of the send, follow-ups are
\* enabled, the chat is active, our message is the last one, no lead decision
\* is recorded, the delay since last_message_at has elapsed, and the account
\* is below the daily limit and not in cooldown.
C30_FollowUpOnlyWhenAllowed ==
    followLast.kind = "follow_up"
    => /\ followLast.enabled
       /\ followLast.chat.status = "active"
       /\ followLast.chat.last_message_sender = "me"
       /\ followLast.chat.lead_status = "none"
       /\ ~followLast.chat.processed_at
       /\ followLast.chat.last_message_at # None
       /\ followNow - followLast.chat.last_message_at >= FollowUpDelay
       /\ followLast.account.messages_sent_today < FollowDailyLimit
       /\ ~( /\ followLast.account.cooldown_until # None
             /\ followLast.account.cooldown_until > followNow )
====
